---- MODULE Spec2Model ----
(***************************************************************************)
(* State-machine model of the lt-open-data-sdk client:                     *)
(*   - SpintaClient.stream (cursor pagination, token check per request)    *)
(*   - TokenCache (OAuth client-credentials token lifecycle)               *)
(*   - the CLI streaming query on top of the retrying stream               *)
(*   - SpintaClient.discoverModels (batched, throttled namespace walk)     *)
(*   - SpintaClient.streamChanges (change-log pagination)                  *)
(*   - FilterBuilder / QueryBuilder (query string rendering, clone)        *)
(* Each component has its own specification; the variables of the other    *)
(* components stay at their initial values.                                *)
(***************************************************************************)
EXTENDS Integers, Sequences, FiniteSets, TLC

VARIABLES
    \* ---- shared: clock and token cache (auth.ts) ----
    now,            \* Date.now(), in ms
    cachedToken,    \* TokenCache.cachedToken: None or Some([accessToken, expiresAt])
    tokenSeq,       \* number of successful token exchanges so far (names the tokens)
    authRequests,   \* number of POSTs sent to the auth endpoint
    cacheMeta,      \* history: when and from which expires_in the cache entry was written
    \* ---- TokenCache callers ----
    callerPc,       \* per caller: position inside getToken()
    lastCall,       \* history, per caller: what its latest getToken() saw and did
    lastClear,      \* history: the latest clear(), until the cache is written again
    ticks,          \* number of clock steps taken
    \* ---- SpintaClient.stream ----
    credentials,    \* whether the client was built with clientId/clientSecret
    listing,        \* the service's listing: a sequence of pages
    baseQuery,      \* query?.toQueryString() ?? ''
    spc,            \* position of the generator
    pageToken,      \* stream's local pageToken
    queryString,    \* stream's local queryString of the request in progress
    tokenCheck,     \* what getToken() saw for the request in progress: cache and time
    response,       \* page being yielded: [data, next]
    idx,            \* number of items of response already yielded
    delivered,      \* items handed to the consumer, in order
    requests,       \* log of the data requests sent
    streamError,    \* None or Some(error) raised to the consumer
    \* ---- CLI streaming query over the retrying stream ----
    retryOptions,   \* options handed to streamWithRetry
    attempt,        \* attempt number of the page request in progress (1-based)
    events,         \* log: requests, responses and backoff sleeps, in order
    limit,          \* runStreamingQuery's limit: None (Infinity) or Some(n)
    totalRecords,   \* runStreamingQuery's totalRecords
    written,        \* records written to the output
    cliResult,      \* None while running, then Some(outcome of runStreamingQuery)
    \* ---- SpintaClient.discoverModels ----
    tree,           \* the service's namespaces: namespace -> raw listing
    concurrency,    \* discoverModels' concurrency argument
    lastRequestTime,\* discoverModels' lastRequestTime
    tasks,          \* the traverse() calls made so far, in call order
    models,         \* discoverModels' models array
    requestStarts,  \* log: namespace and time of every listNamespace request
    discoverResult, \* None while running, then Some(settled promise)
    \* ---- SpintaClient.streamChanges ----
    changeLog,      \* the service's change log of the model: entries in _cid order
    sinceId,        \* streamChanges' sinceId argument
    pageSize,       \* streamChanges' pageSize argument
    lastId,         \* streamChanges' lastId
    hasMore,        \* streamChanges' hasMore
    cpc,            \* position of the generator
    changes,        \* the page being yielded
    cidx,           \* number of entries of changes already yielded
    yielded,        \* entries handed to the consumer, in order
    changeRequests, \* log of the getChanges requests sent
    returned,       \* history: all entries the service returned, in order
    \* ---- builder: FilterBuilder / QueryBuilder ----
    nodes,          \* the FilterExpression objects created so far, by reference
    arrays,         \* the array objects of the builders, by reference
    builders,       \* the QueryBuilder objects: 1 is the source, 2 its clone
    calls,          \* number of builder calls made so far
    expected,       \* history, per builder: what its calls have asked for
    \* ---- single calls of the client and the CLI helpers ----
    operation,      \* the function called, "none" when none is
    argument,       \* what it is called with
    outcome         \* None while the call runs, then Some(what it returned or threw)

tokenVars  == <<now, cachedToken, tokenSeq, authRequests, cacheMeta>>
retryVars  == <<retryOptions, attempt, events, limit, totalRecords, written, cliResult>>
discoverVars == <<tree, concurrency, lastRequestTime, tasks, models, requestStarts,
                  discoverResult>>
changesVars == <<changeLog, sinceId, pageSize, lastId, hasMore, cpc, changes, cidx,
                 yielded, changeRequests, returned>>
builderVars == <<nodes, arrays, builders, calls, expected>>
callVars == <<operation, argument, outcome>>
libraryVars == <<changesVars, builderVars, callVars>>
callerVars == <<callerPc, lastCall, lastClear, ticks>>
streamVars == <<credentials, listing, baseQuery, spc, pageToken, queryString,
                tokenCheck, response, idx, delivered, requests, streamError>>

(***************************************************************************)
(* Generic helpers                                                         *)
(***************************************************************************)
None == <<>>
Some(x) == <<x>>
Get(o) == o[1]

Min(a, b) == IF a < b THEN a ELSE b

RECURSIVE Pow2(_)
Pow2(n) == IF n <= 0 THEN 1 ELSE 2 * Pow2(n - 1)

RECURSIVE Concat(_)
Concat(ss) == IF ss = <<>> THEN <<>> ELSE Head(ss) \o Concat(Tail(ss))

(***************************************************************************)
(* Bounds of the model                                                     *)
(***************************************************************************)
MaxPages == 3
MaxItems == 2
StreamHorizon == 2000
StreamTickMs == 1000
MaxExchanges == 2
MaxLimit == 2
RetryMaxPages == 2
MaxConcurrency == 2
MaxDiscoverTicks == 4
MaxTicks == 2

(***************************************************************************)
(* client/errors.ts                                                        *)
(***************************************************************************)
ErrorStatuses == {400, 401, 403, 404, 429, 500}

HandleErrorResponseWithout403(status) ==
    [kind   |-> CASE status = 400 -> "ValidationError"
                  [] status = 401 -> "AuthenticationError"
                  [] status = 404 -> "NotFoundError"
                  [] OTHER -> "SpintaError",
     status |-> status]

\* handleErrorResponse: the error class thrown for a non-ok status
HandleErrorResponse(status) ==
    [kind   |-> CASE status = 400 -> "ValidationError"
                  [] status \in {401, 403} -> "AuthenticationError"
                  [] status = 404 -> "NotFoundError"
                  [] OTHER -> "SpintaError",
     status |-> status]

(***************************************************************************)
(* client/auth.ts : TokenCache                                             *)
(***************************************************************************)
EXPIRY_BUFFER_MS == 5 * 60 * 1000

\* expires_in values (seconds) the auth server answers with
ExpiresInChoices == {300, 301}

IsValidNoBuffer(cache, t) ==
    IF cache = None THEN FALSE ELSE t < Get(cache).expiresAt

IsValidInclusive(cache, t) ==
    IF cache = None THEN FALSE ELSE t <= Get(cache).expiresAt - EXPIRY_BUFFER_MS

\* TokenCache.isValid at time t
IsValid(cache, t) ==
    IF cache = None THEN FALSE ELSE t < Get(cache).expiresAt - EXPIRY_BUFFER_MS

TokenName(n) == "token" \o ToString(n)

CachedTokenNoLifetime(accessToken, expiresIn, t) ==
    Some([accessToken |-> accessToken, expiresAt |-> t])

\* refresh(): the cache entry written from a token response received at time t
CachedTokenFrom(accessToken, expiresIn, t) ==
    Some([accessToken |-> accessToken, expiresAt |-> t + expiresIn * 1000])

(***************************************************************************)
(* The service's listing endpoint                                          *)
(***************************************************************************)
Cursor(k) == "cur" \o ToString(k)

Item(k, i) == <<k, i>>

\* a listing whose page k holds sizes[k] items; every page but the last
\* answers with the cursor of the next page
ListingOf(sizes) ==
    [k \in 1..Len(sizes) |->
        [data |-> [i \in 1..sizes[k] |-> Item(k, i)],
         next |-> IF k < Len(sizes) THEN Some(Cursor(k + 1)) ELSE None]]

Listings ==
    { ListingOf(sizes) : sizes \in UNION { [1..n -> 0..MaxItems] : n \in 1..MaxPages } }

\* the cursor a query string carries: the argument of its last page() directive
PageTokenOf(q) ==
    LET at == { i \in 1..Len(q) : q[i] = "page(" }
    IN  IF at = {} THEN None
        ELSE Some(q[(CHOOSE i \in at : \A j \in at : j <= i) + 1])

\* index of the page the service answers a query string with
ServedPage(q) ==
    IF PageTokenOf(q) = None THEN 1
    ELSE CHOOSE k \in 1..(MaxPages + 1) : Cursor(k) = Get(PageTokenOf(q))

AllItems(l) == Concat([k \in 1..Len(l) |-> l[k].data])

(***************************************************************************)
(* client/SpintaClient.ts : stream                                         *)
(***************************************************************************)
BaseQueries == { <<>>, <<"?", "limit(10)">> }

QueryStringNoCursor(base, token) == base

QueryStringAccumulating(base, token) ==
    IF token = None THEN base
    ELSE base \o <<(IF base # <<>> THEN "&" ELSE "?"), "page(", "cur1", ")",
                   "&", "page(", Get(token), ")">>

QueryStringAlwaysAmpersand(base, token) ==
    IF token = None THEN base
    ELSE base \o <<"&", "page(", Get(token), ")">>

\* the query string stream() builds for one page request
QueryString(base, token) ==
    IF token = None THEN base
    ELSE base \o <<(IF base # <<>> THEN "&" ELSE "?"), "page(", Get(token), ")">>

NoAuth == "no-auth"

StreamInit ==
    /\ credentials \in BOOLEAN
    /\ listing \in Listings
    /\ baseQuery \in BaseQueries
    /\ spc = "request"
    /\ pageToken = None
    /\ queryString = <<>>
    /\ tokenCheck = [cacheBefore |-> None, checkedAt |-> 0]
    /\ response = [data |-> <<>>, next |-> None]
    /\ idx = 0
    /\ delivered = <<>>
    /\ requests = <<>>
    /\ streamError = None

TokenInit ==
    /\ now = 0
    /\ cachedToken = None
    /\ tokenSeq = 0
    /\ authRequests = 0
    /\ cacheMeta = [cachedAt |-> 0, expiresIn |-> 0]

\* one data request as logged at the moment fetch() is called
RequestEntry(q, auth, check, exchanges) ==
    [query |-> q, auth |-> auth, cacheBefore |-> check.cacheBefore,
     checkedAt |-> check.checkedAt, exchanges |-> exchanges]

\* request(): getHeaders() runs first; without a token cache, or with a valid
\* token, fetch is sent at once; otherwise getToken() starts a refresh
StreamRequest ==
    /\ spc = "request"
    /\ Len(requests) <= MaxPages
    /\ LET q     == QueryString(baseQuery, pageToken)
           check == [cacheBefore |-> cachedToken, checkedAt |-> now]
       IN
       /\ queryString' = q
       /\ tokenCheck' = check
       /\ IF ~credentials
          THEN /\ requests' = Append(requests, RequestEntry(q, NoAuth, check, authRequests))
               /\ spc' = "fetching"
               /\ UNCHANGED authRequests
          ELSE IF IsValid(cachedToken, now)
          THEN /\ requests' = Append(requests,
                     RequestEntry(q, Get(cachedToken).accessToken, check, authRequests))
               /\ spc' = "fetching"
               /\ UNCHANGED authRequests
          ELSE \* refresh(): POST to the auth endpoint
               /\ authRequests' = authRequests + 1
               /\ spc' = "refreshing"
               /\ UNCHANGED requests
    /\ UNCHANGED <<now, cachedToken, tokenSeq, cacheMeta, credentials, listing, baseQuery,
                   pageToken, response, idx, delivered, streamError>>
    /\ UNCHANGED <<callerVars, retryVars, discoverVars>>
    /\ UNCHANGED libraryVars

\* refresh() got a token response: cache it, then fetch with the cached token
StreamRefreshOk ==
    /\ spc = "refreshing"
    /\ \E e \in ExpiresInChoices :
         cachedToken' = CachedTokenFrom(TokenName(tokenSeq + 1), e, now)
    /\ tokenSeq' = tokenSeq + 1
    /\ cacheMeta' = [cachedAt |-> now, expiresIn |-> (Get(cachedToken').expiresAt - now) \div 1000]
    /\ requests' = Append(requests,
           RequestEntry(queryString, Get(cachedToken').accessToken, tokenCheck, authRequests))
    /\ spc' = "fetching"
    /\ UNCHANGED <<now, authRequests, credentials, listing, baseQuery, pageToken,
                   queryString, tokenCheck, response, idx, delivered, streamError>>
    /\ UNCHANGED <<callerVars, retryVars, discoverVars>>
    /\ UNCHANGED libraryVars

\* refresh() got a non-ok answer: AuthenticationError, no data request is sent
StreamRefreshFail ==
    /\ spc = "refreshing"
    /\ \E s \in {400, 401} :
         streamError' = Some([kind |-> "AuthenticationError", status |-> s])
    /\ spc' = "error"
    /\ UNCHANGED <<now, cachedToken, tokenSeq, authRequests, cacheMeta, credentials, listing,
                   baseQuery, pageToken, queryString, tokenCheck, response, idx,
                   delivered, requests>>
    /\ UNCHANGED <<callerVars, retryVars, discoverVars>>
    /\ UNCHANGED libraryVars

\* the data request is answered with a page
StreamResponseOk ==
    /\ spc = "fetching"
    /\ response' = listing[ServedPage(queryString)]
    /\ idx' = 0
    /\ spc' = "yield"
    /\ UNCHANGED <<now, cachedToken, tokenSeq, authRequests, cacheMeta, credentials, listing,
                   baseQuery, pageToken, queryString, tokenCheck, delivered, requests, streamError>>
    /\ UNCHANGED <<callerVars, retryVars, discoverVars>>
    /\ UNCHANGED libraryVars

StreamResponseErrorRetried ==
    /\ spc = "fetching"
    /\ \E s \in ErrorStatuses : streamError' = Some(HandleErrorResponse(s))
    /\ spc' = "request"
    /\ UNCHANGED <<now, cachedToken, tokenSeq, authRequests, cacheMeta, credentials, listing,
                   baseQuery, pageToken, queryString, tokenCheck, response, idx, delivered, requests>>
    /\ UNCHANGED <<callerVars, retryVars, discoverVars>>
    /\ UNCHANGED libraryVars

\* the data request is answered with a non-ok status: handleErrorResponse throws
StreamResponseError ==
    /\ spc = "fetching"
    /\ \E s \in ErrorStatuses : streamError' = Some(HandleErrorResponse(s))
    /\ spc' = "error"
    /\ UNCHANGED <<now, cachedToken, tokenSeq, authRequests, cacheMeta, credentials, listing,
                   baseQuery, pageToken, queryString, tokenCheck, response, idx, delivered, requests>>
    /\ UNCHANGED <<callerVars, retryVars, discoverVars>>
    /\ UNCHANGED libraryVars

\* for (const item of response._data) yield item
StreamYield ==
    /\ spc = "yield"
    /\ idx < Len(response.data)
    /\ delivered' = Append(delivered, response.data[idx + 1])
    /\ idx' = idx + 1
    /\ UNCHANGED <<now, cachedToken, tokenSeq, authRequests, cacheMeta, credentials, listing,
                   baseQuery, spc, pageToken, queryString, tokenCheck, response, requests, streamError>>
    /\ UNCHANGED <<callerVars, retryVars, discoverVars>>
    /\ UNCHANGED libraryVars

\* pageToken = response._page?.next; while (pageToken !== undefined)
StreamNextPage ==
    /\ spc = "yield"
    /\ idx = Len(response.data)
    /\ pageToken' = response.next
    /\ spc' = IF response.next # None THEN "request" ELSE "done"
    /\ UNCHANGED <<now, cachedToken, tokenSeq, authRequests, cacheMeta, credentials, listing,
                   baseQuery, queryString, tokenCheck, response, idx, delivered, requests, streamError>>
    /\ UNCHANGED <<callerVars, retryVars, discoverVars>>
    /\ UNCHANGED libraryVars

\* time passes; only the token check and the token store read the clock
StreamTick ==
    /\ credentials
    /\ spc \in {"request", "refreshing"}
    /\ now + StreamTickMs <= StreamHorizon
    /\ now' = now + StreamTickMs
    /\ UNCHANGED <<cachedToken, tokenSeq, authRequests, cacheMeta>>
    /\ UNCHANGED streamVars
    /\ UNCHANGED <<callerVars, retryVars, discoverVars>>
    /\ UNCHANGED libraryVars

StreamNext ==
    \/ StreamRequest
    \/ StreamRefreshOk
    \/ StreamRefreshFail
    \/ StreamResponseOk
    \/ StreamResponseError
    \/ StreamYield
    \/ StreamNextPage
    \/ StreamTick

(***************************************************************************)
(* client/auth.ts : getToken / refresh / clear under concurrent callers    *)
(***************************************************************************)
\* two overlapping users of one TokenCache
Callers == {"c1", "c2"}

GenericAuthMessage == "Failed to obtain access token"

\* what the token endpoint's non-ok answer holds
NotJsonBody == [json |-> FALSE, description |-> None]
JsonBody(description) == [json |-> TRUE, description |-> description]

ErrorBodies ==
    { NotJsonBody, JsonBody(None), JsonBody(Some("Invalid client credentials")),
      JsonBody(Some("")) }

\* the non-ok answers of the token endpoint taken as inputs
ErrorResponses ==
    { [status |-> 401, body |-> JsonBody(Some("Invalid client credentials"))],
      [status |-> 400, body |-> JsonBody(None)],
      [status |-> 401, body |-> NotJsonBody] }

RefreshErrorMessageGeneric(body) == GenericAuthMessage

\* refresh(): the message of the AuthenticationError for a non-ok answer
RefreshErrorMessage(body) ==
    IF body.json /\ body.description # None THEN Get(body.description)
    ELSE GenericAuthMessage

NoCall == [made |-> FALSE, cacheAtCall |-> None, at |-> 0, refreshed |-> FALSE,
           exchangesBefore |-> 0, exchangesAfter |-> 0, afterClear |-> FALSE,
           dropped |-> None, finished |-> FALSE, result |-> None, error |-> None,
           failedWith |-> None]

CallerInit ==
    /\ callerPc = [c \in Callers |-> "idle"]
    /\ lastCall = [c \in Callers |-> NoCall]
    /\ lastClear = [active |-> FALSE, dropped |-> None]
    /\ ticks = 0

ClearKeepsToken(cache) == cache

\* clear(): the cache after the call
Clear(cache) == None

\* getToken(): isValid() holds, so the cached token is returned at once
GetTokenCached(c) ==
    /\ callerPc[c] = "idle"
    /\ IsValid(cachedToken, now)
    /\ lastCall' = [lastCall EXCEPT ![c] =
          [NoCall EXCEPT !.made = TRUE, !.cacheAtCall = cachedToken, !.at = now,
                         !.exchangesBefore = authRequests, !.exchangesAfter = authRequests,
                         !.afterClear = lastClear.active, !.dropped = lastClear.dropped,
                         !.finished = TRUE,
                         !.result = Some(Get(cachedToken).accessToken)]]
    /\ UNCHANGED <<tokenVars, callerPc, lastClear, ticks>>
    /\ UNCHANGED <<streamVars, retryVars, discoverVars>>
    /\ UNCHANGED libraryVars

\* getToken(): isValid() fails, refresh() posts to the auth endpoint
GetTokenRefresh(c) ==
    /\ callerPc[c] = "idle"
    /\ ~IsValid(cachedToken, now)
    /\ authRequests < MaxExchanges
    /\ authRequests' = authRequests + 1
    /\ callerPc' = [callerPc EXCEPT ![c] = "refreshing"]
    /\ lastCall' = [lastCall EXCEPT ![c] =
          [NoCall EXCEPT !.made = TRUE, !.cacheAtCall = cachedToken, !.at = now,
                         !.refreshed = TRUE,
                         !.exchangesBefore = authRequests, !.exchangesAfter = authRequests + 1,
                         !.afterClear = lastClear.active, !.dropped = lastClear.dropped]]
    /\ UNCHANGED <<now, cachedToken, tokenSeq, cacheMeta, lastClear, ticks>>
    /\ UNCHANGED <<streamVars, retryVars, discoverVars>>
    /\ UNCHANGED libraryVars

\* refresh(): the token response arrived, the cache entry is replaced
RefreshOk(c) ==
    /\ callerPc[c] = "refreshing"
    /\ \E e \in ExpiresInChoices :
         /\ cachedToken' = CachedTokenFrom(TokenName(tokenSeq + 1), e, now)
         /\ cacheMeta' = [cachedAt |-> now, expiresIn |-> e]
    /\ tokenSeq' = tokenSeq + 1
    /\ callerPc' = [callerPc EXCEPT ![c] = "resuming"]
    /\ lastClear' = [active |-> FALSE, dropped |-> None]
    /\ UNCHANGED <<now, authRequests, lastCall, ticks>>
    /\ UNCHANGED <<streamVars, retryVars, discoverVars>>
    /\ UNCHANGED libraryVars

\* refresh(): non-ok answer, AuthenticationError thrown through getToken()
RefreshFail(c) ==
    /\ callerPc[c] = "refreshing"
    /\ \E answer \in ErrorResponses :
         lastCall' = [lastCall EXCEPT ![c].finished = TRUE,
                         ![c].failedWith = Some(answer),
                         ![c].error = Some([kind |-> "AuthenticationError",
                                            message |-> RefreshErrorMessage(answer.body),
                                            status |-> answer.status])]
    /\ callerPc' = [callerPc EXCEPT ![c] = "idle"]
    /\ UNCHANGED <<tokenVars, lastClear, ticks>>
    /\ UNCHANGED <<streamVars, retryVars, discoverVars>>
    /\ UNCHANGED libraryVars

GetTokenResumeUnchecked(c) ==
    /\ callerPc[c] = "resuming"
    /\ lastCall' = [lastCall EXCEPT ![c].finished = TRUE,
          ![c].result = IF cachedToken = None THEN None
                        ELSE Some(Get(cachedToken).accessToken)]
    /\ callerPc' = [callerPc EXCEPT ![c] = "idle"]
    /\ UNCHANGED <<tokenVars, lastClear, ticks>>
    /\ UNCHANGED <<streamVars, retryVars, discoverVars>>
    /\ UNCHANGED libraryVars

\* getToken() after await refresh(): null check, then the cached token
GetTokenResume(c) ==
    /\ callerPc[c] = "resuming"
    /\ lastCall' = [lastCall EXCEPT ![c].finished = TRUE,
          ![c].result = IF cachedToken = None THEN None
                        ELSE Some(Get(cachedToken).accessToken),
          ![c].error = IF cachedToken = None
                       THEN Some([kind |-> "AuthenticationError",
                                  message |-> GenericAuthMessage, status |-> 401])
                       ELSE None]
    /\ callerPc' = [callerPc EXCEPT ![c] = "idle"]
    /\ UNCHANGED <<tokenVars, lastClear, ticks>>
    /\ UNCHANGED <<streamVars, retryVars, discoverVars>>
    /\ UNCHANGED libraryVars

\* clear()
ClearCall ==
    /\ ~lastClear.active
    /\ cachedToken' = Clear(cachedToken)
    /\ lastClear' = [active |-> TRUE, dropped |-> cachedToken]
    /\ UNCHANGED <<now, tokenSeq, authRequests, cacheMeta, callerPc, lastCall, ticks>>
    /\ UNCHANGED <<streamVars, retryVars, discoverVars>>
    /\ UNCHANGED libraryVars

\* time passes
TokenTick ==
    /\ ticks < MaxTicks
    /\ ticks' = ticks + 1
    /\ \E d \in {1, 999} : now' = now + d
    /\ UNCHANGED <<cachedToken, tokenSeq, authRequests, cacheMeta, callerPc, lastCall,
                   lastClear>>
    /\ UNCHANGED <<streamVars, retryVars, discoverVars>>
    /\ UNCHANGED libraryVars

TokenNext ==
    \/ \E c \in Callers : GetTokenCached(c)
    \/ \E c \in Callers : GetTokenRefresh(c)
    \/ \E c \in Callers : RefreshOk(c)
    \/ \E c \in Callers : RefreshFail(c)
    \/ \E c \in Callers : GetTokenResume(c)
    \/ ClearCall
    \/ TokenTick

(***************************************************************************)
(* cli/commands/query : runStreamingQuery over client.streamWithRetry      *)
(***************************************************************************)
DEFAULT_PAGE_SIZE == 100
INITIAL_BACKOFF_MS == 1000
MAX_BACKOFF_MS == 30000
MAX_RATE_LIMIT_ATTEMPTS == 5

CliRetryOptionsSwapped(noRetry) ==
    [pageSize |-> DEFAULT_PAGE_SIZE, initialBackoffMs |-> MAX_BACKOFF_MS,
     maxBackoffMs |-> INITIAL_BACKOFF_MS, maxAttempts |-> MAX_RATE_LIMIT_ATTEMPTS,
     noRetry |-> noRetry]

\* the options runStreamingQuery passes to streamWithRetry
CliRetryOptions(noRetry) ==
    [pageSize |-> DEFAULT_PAGE_SIZE, initialBackoffMs |-> INITIAL_BACKOFF_MS,
     maxBackoffMs |-> MAX_BACKOFF_MS, maxAttempts |-> MAX_RATE_LIMIT_ATTEMPTS,
     noRetry |-> noRetry]

\* options of a direct caller of streamWithRetry, with a backoff ceiling low
\* enough to be reached
LibraryRetryOptions ==
    [pageSize |-> 100, initialBackoffMs |-> 1000, maxBackoffMs |-> 3000,
     maxAttempts |-> 4, noRetry |-> FALSE]

\* streamWithRetry: the sleep before the retry that follows attempt number a
Backoff(a, opts) == Min(opts.initialBackoffMs * Pow2(a - 1), opts.maxBackoffMs)

\* streamWithRetry: whether a 429 on attempt number a is retried
ShouldRetry(a, opts) == ~opts.noRetry /\ a < opts.maxAttempts

IsRetryableStatusOrServerError(status) == status = 429 \/ status >= 500

\* streamWithRetry: the answers that are retried; every other failure is thrown
IsRetryableStatus(status) == status = 429

IsRateLimitErrorByClass(err) == err.kind = "RateLimitError"

\* isRateLimitError
IsRateLimitError(err) == err.status = 429

\* cli/utils/errors.ts: the exit code each CLI error class carries
ExitCode ==
    [Success |-> 0, UserError |-> 1, ApiError |-> 2, InternalError |-> 3,
     PartialFailure |-> 4]

CatchStreamErrorAlwaysPartial(err, total) ==
    IF IsRateLimitError(err)
    THEN [kind |-> "ApiError", rateLimited |-> TRUE, records |-> total,
          exitCode |-> ExitCode.ApiError]
    ELSE [kind |-> "PartialFailureError", rateLimited |-> FALSE, records |-> total,
          exitCode |-> ExitCode.PartialFailure]

\* runStreamingQuery's catch block: the error it raises
CatchStreamError(err, total) ==
    IF IsRateLimitError(err)
    THEN [kind |-> "ApiError", rateLimited |-> TRUE, records |-> total,
          exitCode |-> ExitCode.ApiError]
    ELSE IF total > 0
    THEN [kind |-> "PartialFailureError", rateLimited |-> FALSE, records |-> total,
          exitCode |-> ExitCode.PartialFailure]
    ELSE [kind |-> "ApiError", rateLimited |-> FALSE, records |-> 0,
          exitCode |-> ExitCode.ApiError]

Success(total) ==
    [kind |-> "ok", rateLimited |-> FALSE, records |-> total,
     exitCode |-> ExitCode.Success]

Event(type, q, a, status, ms) ==
    [type |-> type, query |-> q, attempt |-> a, status |-> status, ms |-> ms]

RetryIdle ==
    /\ retryOptions = CliRetryOptions(FALSE)
    /\ attempt = 1
    /\ events = <<>>
    /\ limit = None
    /\ totalRecords = 0
    /\ written = <<>>
    /\ cliResult = None

RetryInit ==
    /\ retryOptions \in { CliRetryOptions(nr) : nr \in BOOLEAN } \cup { LibraryRetryOptions }
    /\ attempt = 1
    /\ events = <<>>
    /\ limit \in { None } \cup { Some(n) : n \in 0..MaxLimit }
    /\ totalRecords = 0
    /\ written = <<>>
    /\ cliResult = None
    \* the CLI builds its client without credentials
    /\ credentials = FALSE
    /\ listing \in { l \in Listings : Len(l) <= RetryMaxPages }
    /\ baseQuery = <<"?", "limit(10)">>
    /\ spc = "request"
    /\ pageToken = None
    /\ queryString = <<>>
    /\ tokenCheck = [cacheBefore |-> None, checkedAt |-> 0]
    /\ response = [data |-> <<>>, next |-> None]
    /\ idx = 0
    /\ delivered = <<>>
    /\ requests = <<>>
    /\ streamError = None

\* a page request is sent (first attempt or retry)
RetryRequest ==
    /\ spc = "request"
    /\ queryString' = QueryString(baseQuery, pageToken)
    /\ events' = Append(events, Event("request", queryString', attempt, 0, 0))
    /\ spc' = "fetching"
    /\ UNCHANGED <<tokenVars, callerVars, credentials, listing, baseQuery, pageToken,
                   tokenCheck, response, idx, delivered, requests, streamError,
                   retryOptions, attempt, limit, totalRecords, written, cliResult>>
    /\ UNCHANGED discoverVars
    /\ UNCHANGED libraryVars

\* the page request succeeds
RetryResponseOk ==
    /\ spc = "fetching"
    /\ response' = listing[ServedPage(queryString)]
    /\ idx' = 0
    /\ events' = Append(events, Event("response", queryString, attempt, 200, 0))
    /\ spc' = "yield"
    /\ UNCHANGED <<tokenVars, callerVars, credentials, listing, baseQuery, pageToken,
                   queryString, tokenCheck, delivered, requests, streamError,
                   retryOptions, attempt, limit, totalRecords, written, cliResult>>
    /\ UNCHANGED discoverVars
    /\ UNCHANGED libraryVars

\* the page request is answered 429: back off, or give up and throw into
\* runStreamingQuery's catch block
RetryRateLimited ==
    /\ spc = "fetching"
    /\ \E s \in { st \in ErrorStatuses : IsRetryableStatus(st) } :
         /\ events' = Append(events, Event("response", queryString, attempt, s, 0))
         /\ IF ShouldRetry(attempt, retryOptions)
            THEN /\ spc' = "sleeping"
                 /\ UNCHANGED <<streamError, cliResult>>
            ELSE /\ spc' = "error"
                 /\ streamError' = Some(HandleErrorResponse(s))
                 /\ cliResult' = Some(CatchStreamError(HandleErrorResponse(s),
                                                       totalRecords))
    /\ UNCHANGED <<tokenVars, callerVars, credentials, listing, baseQuery, pageToken,
                   queryString, tokenCheck, response, idx, delivered, requests,
                   retryOptions, attempt, limit, totalRecords, written>>
    /\ UNCHANGED discoverVars
    /\ UNCHANGED libraryVars

\* the backoff sleep ends, the same page is requested again
RetrySleep ==
    /\ spc = "sleeping"
    /\ events' = Append(events, Event("sleep", queryString, attempt, 0,
                                      Backoff(attempt, retryOptions)))
    /\ attempt' = attempt + 1
    /\ spc' = "request"
    /\ UNCHANGED <<tokenVars, callerVars, credentials, listing, baseQuery, pageToken,
                   queryString, tokenCheck, response, idx, delivered, requests,
                   streamError, retryOptions, limit, totalRecords, written, cliResult>>
    /\ UNCHANGED discoverVars
    /\ UNCHANGED libraryVars

\* the page request fails with another status: thrown at once
RetryOtherError ==
    /\ spc = "fetching"
    /\ \E s \in { st \in ErrorStatuses : ~IsRetryableStatus(st) } :
         /\ events' = Append(events, Event("response", queryString, attempt, s, 0))
         /\ streamError' = Some(HandleErrorResponse(s))
         /\ cliResult' = Some(CatchStreamError(HandleErrorResponse(s), totalRecords))
    /\ spc' = "error"
    /\ UNCHANGED <<tokenVars, callerVars, credentials, listing, baseQuery, pageToken,
                   queryString, tokenCheck, response, idx, delivered, requests,
                   retryOptions, attempt, limit, totalRecords, written>>
    /\ UNCHANGED discoverVars
    /\ UNCHANGED libraryVars

\* the generator yields a record; runStreamingQuery's loop body writes it, or
\* breaks when the limit is reached
RetryYield ==
    /\ spc = "yield"
    /\ idx < Len(response.data)
    /\ delivered' = Append(delivered, response.data[idx + 1])
    /\ idx' = idx + 1
    /\ IF limit # None /\ totalRecords >= Get(limit)
       THEN /\ spc' = "closed"
            /\ cliResult' = Some(Success(totalRecords))
            /\ UNCHANGED <<totalRecords, written>>
       ELSE /\ totalRecords' = totalRecords + 1
            /\ written' = Append(written, response.data[idx + 1])
            /\ UNCHANGED <<spc, cliResult>>
    /\ UNCHANGED <<tokenVars, callerVars, credentials, listing, baseQuery, pageToken,
                   queryString, tokenCheck, response, requests, streamError,
                   retryOptions, attempt, events, limit>>
    /\ UNCHANGED discoverVars
    /\ UNCHANGED libraryVars

\* end of a page: follow the cursor, or finish
RetryNextPage ==
    /\ spc = "yield"
    /\ idx = Len(response.data)
    /\ pageToken' = response.next
    /\ attempt' = 1
    /\ IF response.next # None
       THEN spc' = "request" /\ UNCHANGED cliResult
       ELSE spc' = "done" /\ cliResult' = Some(Success(totalRecords))
    /\ UNCHANGED <<tokenVars, callerVars, credentials, listing, baseQuery,
                   queryString, tokenCheck, response, idx, delivered, requests,
                   streamError, retryOptions, events, limit, totalRecords, written>>
    /\ UNCHANGED discoverVars
    /\ UNCHANGED libraryVars

RetryNext ==
    \/ RetryRequest
    \/ RetryResponseOk
    \/ RetryRateLimited
    \/ RetrySleep
    \/ RetryOtherError
    \/ RetryYield
    \/ RetryNextPage

(***************************************************************************)
(* client/SpintaClient.ts : listNamespace / discoverModels                 *)
(***************************************************************************)
minRequestIntervalMs == 50

\* clock step of the discovery runs: half the minimum interval
DiscoverTickMs == minRequestIntervalMs \div 2

\* raw items of the /:ns endpoint: name as path segments, namespaces end in ":ns"
RawNs(path) == [name |-> path \o <<":ns">>, title |-> "ns"]
RawModel(path) == [name |-> path, title |-> "model"]

\* a namespace with three sibling sub-namespaces
FlatTree ==
    ( <<"r">> :> << RawModel(<<"r", "M">>), RawNs(<<"r", "a">>), RawNs(<<"r", "b">>),
                    RawNs(<<"r", "c">>) >> )
    @@ ( <<"r", "a">> :> << RawModel(<<"r", "a", "M">>) >> )
    @@ ( <<"r", "b">> :> << >> )
    @@ ( <<"r", "c">> :> << RawModel(<<"r", "c", "M">>), RawModel(<<"r", "c", "N">>) >> )

\* two levels of sub-namespaces
DeepTree ==
    ( <<"r">> :> << RawNs(<<"r", "a">>), RawNs(<<"r", "b">>) >> )
    @@ ( <<"r", "a">> :> << RawNs(<<"r", "a", "x">>), RawModel(<<"r", "a", "M">>),
                            RawNs(<<"r", "a", "y">>) >> )
    @@ ( <<"r", "b">> :> << RawNs(<<"r", "b", "x">>) >> )
    @@ ( <<"r", "a", "x">> :> << RawModel(<<"r", "a", "x", "M">>) >> )
    @@ ( <<"r", "a", "y">> :> << >> )
    @@ ( <<"r", "b", "x">> :> << RawModel(<<"r", "b", "x", "M">>) >> )

\* a namespace tree without models
BareTree ==
    ( <<"r">> :> << RawNs(<<"r", "a">>) >> )
    @@ ( <<"r", "a">> :> << >> )

\* a listing that holds the listed namespace itself, next to a model
SelfTree ==
    ( <<"r">> :> << RawNs(<<"r">>), RawModel(<<"r", "M">>) >> )

\* a listing that holds the parent of the listed namespace
AncestorTree ==
    ( <<"r">> :> << RawNs(<<"r", "a">>) >> )
    @@ ( <<"r", "a">> :> << RawModel(<<"r", "a", "M">>), RawNs(<<"r">>) >> )

Trees == { FlatTree, DeepTree, BareTree, SelfTree, AncestorTree }

StartNamespace == <<"r">>

\* listNamespace: one raw item transformed to a NamespaceItem
NamespaceItem(raw) ==
    LET isNamespace == raw.name # <<>> /\ raw.name[Len(raw.name)] = ":ns" IN
    [id    |-> IF isNamespace THEN SubSeq(raw.name, 1, Len(raw.name) - 1) ELSE raw.name,
     type  |-> IF isNamespace THEN "ns" ELSE "model",
     title |-> raw.title]

\* listNamespace: the items of a raw response
ListNamespace(raw) == [i \in 1..Len(raw) |-> NamespaceItem(raw[i])]

RECURSIVE SelectType(_, _)
SelectType(items, type) ==
    IF items = <<>> THEN <<>>
    ELSE (IF Head(items).type = type THEN <<Head(items)>> ELSE <<>>)
         \o SelectType(Tail(items), type)

ModelsOfFirstOnly(items, ns) ==
    LET ms == SelectType(items, "model") IN
    [i \in 1..Min(1, Len(ms)) |-> [path |-> ms[i].id, title |-> ms[i].title, namespace |-> ns]]

\* traverse: the DiscoveredModel entries pushed for one listing
ModelsOf(items, ns) ==
    LET ms == SelectType(items, "model") IN
    [i \in 1..Len(ms) |-> [path |-> ms[i].id, title |-> ms[i].title, namespace |-> ns]]

\* traverse: the subNamespaces of one listing
SubNamespacesOf(items) ==
    LET ss == SelectType(items, "ns") IN [i \in 1..Len(ss) |-> ss[i].id]

BatchUnbounded(subs, i, c) == SubSeq(subs, i + 1, Len(subs))

\* traverse: subNamespaces.slice(i, i + concurrency)
Batch(subs, i, c) == SubSeq(subs, i + 1, Min(i + c, Len(subs)))

\* the state the synchronous start of a traverse() call reads and writes
Progress(ts, last, starts) == [tasks |-> ts, last |-> last, starts |-> starts]

Task(ns, parent, slot, pc, wake) ==
    [ns |-> ns, parent |-> parent, slot |-> slot, pc |-> pc, wake |-> wake,
     subs |-> <<>>, batch |-> 0, kids |-> {}, error |-> None]

\* traverse(ns) up to its first await, at time t: throttledFetch either sleeps
\* or stamps lastRequestTime and sends the request
StartTraverse(st, ns, parent, slot, t) ==
    LET elapsed == t - st.last IN
    IF elapsed < minRequestIntervalMs
    THEN Progress(Append(st.tasks,
                         Task(ns, parent, slot, "sleeping", t + (minRequestIntervalMs - elapsed))),
                  st.last, st.starts)
    ELSE Progress(Append(st.tasks, Task(ns, parent, slot, "fetching", 0)),
                  t, Append(st.starts, [ns |-> ns, at |-> t]))

\* batch.map(subNs => traverse(subNs)): the members start one after another,
\* all at time t
RECURSIVE StartMembers(_, _, _, _, _)
StartMembers(st, members, parent, slot, t) ==
    IF members = <<>> THEN st
    ELSE StartMembers(StartTraverse(st, Head(members), parent, slot, t),
                      Tail(members), parent, slot + 1, t)

\* the loop of traverse at index i: start the batch at i, or finish
StartBatch(st, p, subs, i, c, t) ==
    LET members == Batch(subs, i, c)
        n       == Len(st.tasks)
        started == StartMembers(st, members, p, i + 1, t)
    IN  IF i >= Len(subs)
        THEN [started EXCEPT !.tasks[p].pc = "done", !.tasks[p].subs = subs,
                             !.tasks[p].kids = {}]
        ELSE [started EXCEPT !.tasks[p].pc = "waiting", !.tasks[p].subs = subs,
                             !.tasks[p].batch = i,
                             !.tasks[p].kids = (n + 1)..(n + Len(members))]

OutcomePartial(ts, ms, old) ==
    IF old # None THEN old
    ELSE IF ts[1].pc \in {"done", "failed"}
    THEN Some([status |-> "resolved", models |-> ms, error |-> None])
    ELSE None

\* the promise discoverModels returns, settled by the outermost traverse
Outcome(ts, ms, old) ==
    IF old # None THEN old
    ELSE IF ts[1].pc = "done"
    THEN Some([status |-> "resolved", models |-> ms, error |-> None])
    ELSE IF ts[1].pc = "failed"
    THEN Some([status |-> "rejected", models |-> <<>>, error |-> ts[1].error])
    ELSE None

\* a continuation is ready to run: microtasks run before timers and responses
Pending ==
    \E p \in 1..Len(tasks) :
        /\ tasks[p].pc = "waiting"
        /\ \/ \A k \in tasks[p].kids : tasks[k].pc = "done"
           \/ \E k \in tasks[p].kids : tasks[k].pc = "failed"

DiscoverIdle ==
    /\ tree = FlatTree
    /\ concurrency = 1
    /\ lastRequestTime = 0
    /\ tasks = <<>>
    /\ models = <<>>
    /\ requestStarts = <<>>
    /\ discoverResult = None

DiscoverInit ==
    /\ tree \in Trees
    /\ concurrency \in 1..MaxConcurrency
    /\ lastRequestTime = 0
    /\ tasks = <<>>
    /\ models = <<>>
    /\ requestStarts = <<>>
    /\ discoverResult = None

DiscoverClock == now = 20 * minRequestIntervalMs

Commit(st) ==
    /\ tasks' = st.tasks
    /\ lastRequestTime' = st.last
    /\ requestStarts' = st.starts

\* discoverModels(namespace, concurrency): traverse(namespace) starts
DiscoverCall ==
    /\ tasks = <<>>
    /\ Commit(StartTraverse(Progress(tasks, lastRequestTime, requestStarts),
                            StartNamespace, 0, 1, now))
    /\ UNCHANGED <<tree, concurrency, models, discoverResult>>
    /\ UNCHANGED <<tokenVars, callerVars, streamVars, retryVars>>
    /\ UNCHANGED libraryVars

\* throttledFetch: the timer fires, lastRequestTime is stamped, the request is sent
TimerFire(k) ==
    /\ ~Pending
    /\ tasks[k].pc = "sleeping"
    /\ now >= tasks[k].wake
    /\ tasks' = [tasks EXCEPT ![k].pc = "fetching"]
    /\ lastRequestTime' = now
    /\ requestStarts' = Append(requestStarts, [ns |-> tasks[k].ns, at |-> now])
    /\ UNCHANGED <<tree, concurrency, models, discoverResult>>
    /\ UNCHANGED <<tokenVars, callerVars, streamVars, retryVars>>
    /\ UNCHANGED libraryVars

\* the listing arrives: models are pushed, the first batch starts
ListingArrives(k) ==
    /\ ~Pending
    /\ tasks[k].pc = "fetching"
    /\ LET items == ListNamespace(tree[tasks[k].ns])
           st    == StartBatch(Progress(tasks, lastRequestTime, requestStarts), k,
                               SubNamespacesOf(items), 0, concurrency, now)
       IN  /\ models' = models \o ModelsOf(items, tasks[k].ns)
           /\ Commit(st)
           /\ discoverResult' = Outcome(st.tasks, models', discoverResult)
    /\ UNCHANGED <<tree, concurrency>>
    /\ UNCHANGED <<tokenVars, callerVars, streamVars, retryVars>>
    /\ UNCHANGED libraryVars

\* the request fails: traverse rejects
ListingFails(k) ==
    /\ ~Pending
    /\ tasks[k].pc = "fetching"
    /\ tasks' = [tasks EXCEPT ![k].pc = "failed",
                              ![k].error = Some([ns |-> tasks[k].ns, at |-> now])]
    /\ discoverResult' = Outcome(tasks', models, discoverResult)
    /\ UNCHANGED <<tree, concurrency, lastRequestTime, models, requestStarts>>
    /\ UNCHANGED <<tokenVars, callerVars, streamVars, retryVars>>
    /\ UNCHANGED libraryVars

\* await Promise.all(...) resolves: the loop goes on with the next batch
BatchDone(p) ==
    /\ tasks[p].pc = "waiting"
    /\ \A k \in tasks[p].kids : tasks[k].pc = "done"
    /\ LET st == StartBatch(Progress(tasks, lastRequestTime, requestStarts), p,
                            tasks[p].subs, tasks[p].batch + concurrency, concurrency, now)
       IN  /\ Commit(st)
           /\ discoverResult' = Outcome(st.tasks, models, discoverResult)
    /\ UNCHANGED <<tree, concurrency, models>>
    /\ UNCHANGED <<tokenVars, callerVars, streamVars, retryVars>>
    /\ UNCHANGED libraryVars

\* await Promise.all(...) rejects as soon as one member has rejected
BatchFails(p) ==
    /\ tasks[p].pc = "waiting"
    /\ \E k \in tasks[p].kids :
         /\ tasks[k].pc = "failed"
         /\ tasks' = [tasks EXCEPT ![p].pc = "failed", ![p].error = tasks[k].error]
    /\ discoverResult' = Outcome(tasks', models, discoverResult)
    /\ UNCHANGED <<tree, concurrency, lastRequestTime, models, requestStarts>>
    /\ UNCHANGED <<tokenVars, callerVars, streamVars, retryVars>>
    /\ UNCHANGED libraryVars

\* the clock steps of one run: sequential runs (concurrency 1) need one
\* interval per namespace and get three times as many steps
DiscoverHorizon(c) == (IF c = 1 THEN 3 ELSE 1) * MaxDiscoverTicks * DiscoverTickMs

\* time passes while a timer or a request is pending
DiscoverTick ==
    /\ ~Pending
    /\ \E k \in 1..Len(tasks) : tasks[k].pc \in {"sleeping", "fetching"}
    /\ now < 20 * minRequestIntervalMs + DiscoverHorizon(concurrency)
    /\ now' = now + DiscoverTickMs
    /\ UNCHANGED <<cachedToken, tokenSeq, authRequests, cacheMeta>>
    /\ UNCHANGED discoverVars
    /\ UNCHANGED libraryVars
    /\ UNCHANGED <<callerVars, streamVars, retryVars>>

DiscoverNext ==
    \/ DiscoverCall
    \/ \E k \in 1..Len(tasks) : TimerFire(k)
    \/ \E k \in 1..Len(tasks) : ListingArrives(k)
    \/ \E k \in 1..Len(tasks) : ListingFails(k)
    \/ \E p \in 1..Len(tasks) : BatchDone(p)
    \/ \E p \in 1..Len(tasks) : BatchFails(p)
    \/ DiscoverTick

(***************************************************************************)
(* client/SpintaClient.ts : getChanges / streamChanges                     *)
(***************************************************************************)
MaxChanges == 4
MaxPageSize == 2

\* one entry of the change log
ChangeEntry(cid) == [cid |-> cid, op |-> "insert"]

\* change logs: _cid grows along the log, with gaps
ChangeLogs == { [i \in 1..n |-> ChangeEntry(10 * i)] : n \in 0..MaxChanges }

SinceIds == { 0, 10, 15 }

\* getChanges: the request, /:changes/<sinceId ?? 0> with ?limit(<limit>)
GetChangesRequest(since, lim) ==
    [changeId |-> IF since = None THEN 0 ELSE Get(since), query |-> <<"?", "limit", lim>>]

RECURSIVE After(_, _)
\* the service: the entries of a log after an exclusive change id
After(log, id) ==
    IF log = <<>> THEN <<>>
    ELSE IF Head(log).cid > id THEN log
    ELSE After(Tail(log), id)

HasMoreStrict(len, size) == len > size

\* streamChanges: hasMore = changes.length >= pageSize
HasMore(len, size) == len >= size

ChangesIdle ==
    /\ changeLog = <<>>
    /\ sinceId = 0
    /\ pageSize = 1
    /\ lastId = 0
    /\ hasMore = TRUE
    /\ cpc = "idle"
    /\ changes = <<>>
    /\ cidx = 0
    /\ yielded = <<>>
    /\ changeRequests = <<>>
    /\ returned = <<>>

\* streamChanges(model, sinceId, pageSize): lastId = sinceId, hasMore = true
ChangesInit ==
    /\ changeLog \in ChangeLogs
    /\ sinceId \in SinceIds
    /\ pageSize \in 0..MaxPageSize
    /\ lastId = sinceId
    /\ hasMore = TRUE
    /\ cpc = "request"
    /\ changes = <<>>
    /\ cidx = 0
    /\ yielded = <<>>
    /\ changeRequests = <<>>
    /\ returned = <<>>

\* while (hasMore): getChanges(model, lastId, pageSize) sends its request
ChangesRequest ==
    /\ cpc = "request"
    /\ changeRequests' = Append(changeRequests,
                                [req |-> GetChangesRequest(Some(lastId), pageSize),
                                 yieldedBefore |-> Len(yielded)])
    /\ cpc' = "await"
    /\ UNCHANGED <<changeLog, sinceId, pageSize, lastId, hasMore, changes, cidx, yielded,
                   returned>>
    /\ UNCHANGED <<tokenVars, callerVars, streamVars, retryVars, discoverVars>>
    /\ UNCHANGED <<builderVars, callVars>>

\* the service answers with at most limit entries after the requested id; an
\* empty page ends the generator
ChangesResponse ==
    /\ cpc = "await"
    /\ LET req   == changeRequests[Len(changeRequests)].req
           avail == After(changeLog, req.changeId)
       IN  \E k \in 0..Min(req.query[3], Len(avail)) :
             /\ changes' = SubSeq(avail, 1, k)
             /\ returned' = returned \o <<SubSeq(avail, 1, k)>>
             /\ cpc' = IF k = 0 THEN "done" ELSE "yield"
    /\ cidx' = 0
    /\ UNCHANGED <<changeLog, sinceId, pageSize, lastId, hasMore, yielded, changeRequests>>
    /\ UNCHANGED <<tokenVars, callerVars, streamVars, retryVars, discoverVars>>
    /\ UNCHANGED <<builderVars, callVars>>

\* request() throws: the error leaves the generator
ChangesResponseError ==
    /\ cpc = "await"
    /\ cpc' = "failed"
    /\ UNCHANGED <<changeLog, sinceId, pageSize, lastId, hasMore, changes, cidx, yielded,
                   changeRequests, returned>>
    /\ UNCHANGED <<tokenVars, callerVars, streamVars, retryVars, discoverVars>>
    /\ UNCHANGED <<builderVars, callVars>>

\* yield change; lastId = change._cid
ChangesYield ==
    /\ cpc = "yield"
    /\ cidx < Len(changes)
    /\ yielded' = Append(yielded, changes[cidx + 1])
    /\ lastId' = changes[cidx + 1].cid
    /\ cidx' = cidx + 1
    /\ UNCHANGED <<changeLog, sinceId, pageSize, hasMore, cpc, changes, changeRequests,
                   returned>>
    /\ UNCHANGED <<tokenVars, callerVars, streamVars, retryVars, discoverVars>>
    /\ UNCHANGED <<builderVars, callVars>>

\* end of the page: hasMore is set and the while condition is tested
ChangesPageEnd ==
    /\ cpc = "yield"
    /\ cidx = Len(changes)
    /\ hasMore' = HasMore(Len(changes), pageSize)
    /\ cpc' = IF hasMore' THEN "request" ELSE "done"
    /\ UNCHANGED <<changeLog, sinceId, pageSize, lastId, changes, cidx, yielded,
                   changeRequests, returned>>
    /\ UNCHANGED <<tokenVars, callerVars, streamVars, retryVars, discoverVars>>
    /\ UNCHANGED <<builderVars, callVars>>

ChangesNext ==
    \/ ChangesRequest
    \/ ChangesResponse
    \/ ChangesResponseError
    \/ ChangesYield
    \/ ChangesPageEnd

(***************************************************************************)
(* builder/FilterBuilder.ts                                                *)
(***************************************************************************)
MaxOps == 2

\* a string is rendered as a sequence of tokens; Join glues tokens into text
RECURSIVE Join(_)
Join(toks) == IF toks = <<>> THEN "" ELSE Head(toks) \o Join(Tail(toks))

\* values of a comparison: null, booleans, numbers, strings (as characters)
NullValue == [kind |-> "null"]
BoolValue(b) == [kind |-> "boolean", v |-> b]
NumberValue(n) == [kind |-> "number", v |-> n]
StringValue(chars) == [kind |-> "string", v |-> chars]

\* value.replace(/"/g, '\\"'), character by character
EscapeQuotes(chars) ==
    Concat([i \in 1..Len(chars) |-> IF chars[i] = "\"" THEN <<"\\", "\"">> ELSE <<chars[i]>>])

\* encodeURIComponent, character by character
EncodeURIComponent(chars) ==
    Join([i \in 1..Len(chars) |->
            CASE chars[i] = "\"" -> "%22"
              [] chars[i] = "\\" -> "%5C"
              [] chars[i] = " "  -> "%20"
              [] OTHER           -> chars[i]])

\* formatValue
FormatValue(value) ==
    CASE value.kind = "null"    -> "null"
      [] value.kind = "string"  ->
            EncodeURIComponent(<<"\"">> \o EscapeQuotes(value.v) \o <<"\"">>)
      [] value.kind = "boolean" -> IF value.v THEN "true" ELSE "false"
      [] value.kind = "number"  -> ToString(value.v)

\* FieldFilter.comparison / FieldFilter.stringOp: the leaf nodes
ComparisonNode(field, operator, value) ==
    [type |-> "comparison", field |-> field, operator |-> operator, value |-> value]
StringOpNode(field, operator, value) ==
    [type |-> "string_op", field |-> field, operator |-> operator, value |-> value]

\* createExpressionBuilder for and / or: a new node over two existing ones
AndNode(left, right) == [type |-> "and", left |-> left, right |-> right]
OrNode(left, right) == [type |-> "or", left |-> left, right |-> right]

IsLeaf(n) == n.type \in {"comparison", "string_op"}

OperatorSymbol(operator) ==
    CASE operator = "eq" -> "="
      [] operator = "ne" -> "!="
      [] operator = "lt" -> "<"
      [] operator = "le" -> "<="
      [] operator = "gt" -> ">"
      [] operator = "ge" -> ">="

\* filterToString, comparison and string_op cases: the text of a leaf
LeafToString(n) ==
    IF n.type = "comparison"
    THEN n.field \o OperatorSymbol(n.operator) \o FormatValue(n.value)
    ELSE n.field \o "." \o n.operator \o "(" \o FormatValue(n.value) \o ")"

NeedsParensAlways(child, parentType) == ~IsLeaf(child)

NeedsParensNever(child, parentType) == FALSE

NeedsParensMirrored(child, parentType) == parentType = "or" /\ child.type = "and"

\* needsParens
NeedsParens(child, parentType) == parentType = "and" /\ child.type = "or"

RECURSIVE FilterToString(_, _)
\* filterToString of the node at reference r of heap h: one token per leaf,
\* "&", "|", "(" and ")" as tokens of their own
FilterToString(h, r) ==
    LET expr == h[r]
        Side(c) == IF NeedsParens(h[c], expr.type)
                   THEN <<"(">> \o FilterToString(h, c) \o <<")">>
                   ELSE FilterToString(h, c)
    IN  IF IsLeaf(expr) THEN << LeafToString(expr) >>
        ELSE Side(expr.left) \o << IF expr.type = "and" THEN "&" ELSE "|" >>
             \o Side(expr.right)

\* the three predicates the expressions are built from
LeafX == ComparisonNode("a", "eq", NumberValue(1))
LeafY == ComparisonNode("b", "gt", StringValue(<<"v">>))
LeafZ == StringOpNode("c", "contains", StringValue(<<"x", "\"">>))

Leaves == << LeafX, LeafY, LeafZ >>

AllocInPlace(h, n) == Append([h EXCEPT ![n.left] = h[n.right]], n)

\* createExpressionBuilder({...}): the new node gets the next reference
Alloc(h, n) == Append(h, n)

(***************************************************************************)
(* builder/index.ts : QueryBuilder                                         *)
(***************************************************************************)
MaxCalls == 5

RECURSIVE JoinWith(_, _)
\* parts.join(sep) over token sequences
JoinWith(parts, sep) ==
    IF parts = <<>> THEN <<>>
    ELSE IF Len(parts) = 1 THEN Head(parts)
    ELSE Head(parts) \o <<sep>> \o JoinWith(Tail(parts), sep)

SortSpec(field, direction) == [field |-> field, direction |-> direction]

\* new QueryBuilder(): two fresh arrays at references a and a + 1
NewBuilder(a) ==
    [selectFields |-> a, sortSpecs |-> a + 1, limitValue |-> None, countMode |-> FALSE,
     filterExpression |-> None]

PushReplacing(arr, items) == items

\* Array.prototype.push
Push(arr, items) == arr \o items

\* toQueryString, the five clauses in the order they are pushed to parts
SelectPart(b, arrs) ==
    IF Len(arrs[b.selectFields]) > 0
    THEN << <<"select(">>
            \o JoinWith([i \in 1..Len(arrs[b.selectFields]) |-> <<arrs[b.selectFields][i]>>], ",")
            \o <<")">> >>
    ELSE <<>>

FilterPart(b, h) ==
    IF b.filterExpression # None THEN << FilterToString(h, Get(b.filterExpression)) >>
    ELSE <<>>

SortPart(b, arrs) ==
    LET specs == arrs[b.sortSpecs]
        sortFields == [i \in 1..Len(specs) |->
                         << IF specs[i].direction = "desc" THEN "-" \o specs[i].field
                            ELSE specs[i].field >>]
    IN  IF Len(specs) > 0 THEN << <<"sort(">> \o JoinWith(sortFields, ",") \o <<")">> >>
        ELSE <<>>

LimitPart(b) ==
    IF b.limitValue # None THEN << <<"limit(", ToString(Get(b.limitValue)), ")">> >>
    ELSE <<>>

CountPart(b) == IF b.countMode THEN << <<"count()">> >> ELSE <<>>

PartsCountFirst(b, arrs, h) ==
    CountPart(b) \o SelectPart(b, arrs) \o FilterPart(b, h) \o SortPart(b, arrs) \o LimitPart(b)

Parts(b, arrs, h) ==
    SelectPart(b, arrs) \o FilterPart(b, h) \o SortPart(b, arrs) \o LimitPart(b) \o CountPart(b)

ToQueryStringAlwaysMark(parts) == <<"?">> \o JoinWith(parts, "&")

\* toQueryString: '' without parts, else '?' + parts.join('&')
ToQueryStringOf(parts) == IF Len(parts) = 0 THEN <<>> ELSE <<"?">> \o JoinWith(parts, "&")

ToQueryString(b, arrs, h) == ToQueryStringOf(Parts(b, arrs, h))

CloneShared(b, a) == b

\* clone(): the copy holds copies of the two arrays, at references a and a + 1,
\* and the same limit, count flag and filter expression
Clone(b, a) ==
    [selectFields |-> a, sortSpecs |-> a + 1, limitValue |-> b.limitValue,
     countMode |-> b.countMode, filterExpression |-> b.filterExpression]

FilterReplacing(h, fe, e) == [heap |-> h, expr |-> e]

\* filter(): AND-combine the callback's expression with the existing one
FilterCombine(h, fe, e) ==
    IF fe # None
    THEN [heap |-> Alloc(h, AndNode(Get(fe), e)), expr |-> Len(h) + 1]
    ELSE [heap |-> h, expr |-> e]

\* what the calls made on a builder have asked for
NoCalls == [select |-> <<>>, sort |-> <<>>, limit |-> None, count |-> FALSE, filters |-> <<>>]

SelectArgs == { <<>>, <<"id">>, <<"name", "code">> }
LimitArgs == { 0, 10 }

\* expressions handed to filter(): a leaf, an Or and an And over the leaves
FilterOperands == Leaves \o << OrNode(1, 2), AndNode(2, 3) >>
FilterRoots == { 1, 4, 5 }

BuilderInit ==
    /\ nodes = FilterOperands
    /\ arrays = << <<>>, <<>> >>
    /\ builders = << NewBuilder(1) >>
    /\ calls = 0
    /\ expected = << NoCalls >>

FilterInit ==
    /\ nodes = Leaves
    /\ arrays = << <<>>, <<>> >>
    /\ builders = << NewBuilder(1) >>
    /\ calls = 0
    /\ expected = << NoCalls >>

BuilderIdle == FilterInit

CallIdle == operation = "none" /\ argument = None /\ outcome = None

LibraryIdle == ChangesIdle /\ BuilderIdle /\ CallIdle

Others ==
    <<tokenVars, callerVars, streamVars, retryVars, discoverVars, changesVars, callVars>>

\* select(...fields)
Select(b, fields) ==
    /\ calls < MaxCalls
    /\ arrays' = [arrays EXCEPT ![builders[b].selectFields] = Push(@, fields)]
    /\ expected' = [expected EXCEPT ![b].select = @ \o fields]
    /\ calls' = calls + 1
    /\ UNCHANGED <<nodes, builders>>
    /\ UNCHANGED Others

\* sort(field)
Sort(b, field) ==
    /\ calls < MaxCalls
    /\ arrays' = [arrays EXCEPT ![builders[b].sortSpecs] = Push(@, <<SortSpec(field, "asc")>>)]
    /\ expected' = [expected EXCEPT ![b].sort = Append(@, <<field, "asc">>)]
    /\ calls' = calls + 1
    /\ UNCHANGED <<nodes, builders>>
    /\ UNCHANGED Others

\* sortDesc(field)
SortDesc(b, field) ==
    /\ calls < MaxCalls
    /\ arrays' = [arrays EXCEPT ![builders[b].sortSpecs] = Push(@, <<SortSpec(field, "desc")>>)]
    /\ expected' = [expected EXCEPT ![b].sort = Append(@, <<field, "desc">>)]
    /\ calls' = calls + 1
    /\ UNCHANGED <<nodes, builders>>
    /\ UNCHANGED Others

\* limit(n)
Limit(b, n) ==
    /\ calls < MaxCalls
    /\ builders' = [builders EXCEPT ![b].limitValue = Some(n)]
    /\ expected' = [expected EXCEPT ![b].limit = Some(n)]
    /\ calls' = calls + 1
    /\ UNCHANGED <<nodes, arrays>>
    /\ UNCHANGED Others

\* count()
Count(b) ==
    /\ calls < MaxCalls
    /\ builders' = [builders EXCEPT ![b].countMode = TRUE]
    /\ expected' = [expected EXCEPT ![b].count = TRUE]
    /\ calls' = calls + 1
    /\ UNCHANGED <<nodes, arrays>>
    /\ UNCHANGED Others

\* filter(callback), the callback returning the expression at reference e
Filter(b, e) ==
    /\ calls < MaxCalls
    /\ LET r == FilterCombine(nodes, builders[b].filterExpression, e) IN
         /\ nodes' = r.heap
         /\ builders' = [builders EXCEPT ![b].filterExpression = Some(r.expr)]
    /\ expected' = [expected EXCEPT ![b].filters = Append(@, e)]
    /\ calls' = calls + 1
    /\ UNCHANGED arrays
    /\ UNCHANGED Others

\* clone() of the source builder
CloneCall ==
    /\ calls < MaxCalls
    /\ Len(builders) = 1
    /\ arrays' = arrays \o << arrays[builders[1].selectFields], arrays[builders[1].sortSpecs] >>
    /\ builders' = Append(builders, Clone(builders[1], Len(arrays) + 1))
    /\ expected' = Append(expected, expected[1])
    /\ calls' = calls + 1
    /\ UNCHANGED nodes
    /\ UNCHANGED Others

\* a.and(b) on two existing expressions
ExprAnd(i, j) ==
    /\ Len(nodes) < Len(Leaves) + MaxOps
    /\ nodes' = Alloc(nodes, AndNode(i, j))
    /\ UNCHANGED <<arrays, builders, calls, expected>>
    /\ UNCHANGED Others

\* a.or(b) on two existing expressions
ExprOr(i, j) ==
    /\ Len(nodes) < Len(Leaves) + MaxOps
    /\ nodes' = Alloc(nodes, OrNode(i, j))
    /\ UNCHANGED <<arrays, builders, calls, expected>>
    /\ UNCHANGED Others

\* filter() of a builder with an expression built so far
ExprFilter(e) ==
    /\ Len(nodes) < Len(Leaves) + MaxOps
    /\ Filter(1, e)

FilterNext ==
    \/ \E i \in 1..Len(nodes), j \in 1..Len(nodes) : ExprAnd(i, j)
    \/ \E i \in 1..Len(nodes), j \in 1..Len(nodes) : ExprOr(i, j)
    \/ \E e \in 1..Len(nodes) : ExprFilter(e)

BuilderNext ==
    \/ \E b \in 1..Len(builders), fields \in SelectArgs : Select(b, fields)
    \/ \E b \in 1..Len(builders) : Sort(b, "name")
    \/ \E b \in 1..Len(builders) : SortDesc(b, "date")
    \/ \E b \in 1..Len(builders), n \in LimitArgs : Limit(b, n)
    \/ \E b \in 1..Len(builders) : Count(b)
    \/ \E b \in 1..Len(builders), e \in FilterRoots : Filter(b, e)

\* a builder and its clone, each called in any order
CloneNext ==
    \/ \E b \in 1..Len(builders) : Select(b, <<"id">>)
    \/ \E b \in 1..Len(builders) : Sort(b, "name")
    \/ \E b \in 1..Len(builders) : SortDesc(b, "date")
    \/ \E b \in 1..Len(builders) : Limit(b, 10)
    \/ \E b \in 1..Len(builders) : Count(b)
    \/ \E b \in 1..Len(builders) : Filter(b, 4)
    \/ CloneCall

vars == <<tokenVars, callerVars, streamVars, retryVars, discoverVars, libraryVars>>

StreamIdle ==
    /\ credentials = FALSE
    /\ listing = ListingOf(<<0>>)
    /\ baseQuery = <<>>
    /\ spc = "idle"
    /\ pageToken = None
    /\ queryString = <<>>
    /\ tokenCheck = [cacheBefore |-> None, checkedAt |-> 0]
    /\ response = [data |-> <<>>, next |-> None]
    /\ idx = 0
    /\ delivered = <<>>
    /\ requests = <<>>
    /\ streamError = None

TokenIdle ==
    /\ cachedToken = None
    /\ tokenSeq = 0
    /\ authRequests = 0
    /\ cacheMeta = [cachedAt |-> 0, expiresIn |-> 0]

\* the clock of the components that never read it
ClockIdle == now = 0

InitStream ==
    LibraryIdle /\ TokenInit /\ CallerInit /\ StreamInit /\ RetryIdle /\ DiscoverIdle

InitToken ==
    LibraryIdle /\ TokenInit /\ CallerInit /\ StreamIdle /\ RetryIdle /\ DiscoverIdle

InitRetry ==
    LibraryIdle /\ TokenInit /\ CallerInit /\ RetryInit /\ DiscoverIdle

InitDiscover ==
    LibraryIdle /\ DiscoverClock /\ TokenIdle /\ CallerInit /\ StreamIdle /\ RetryIdle
    /\ DiscoverInit

SpecStream == InitStream /\ [][StreamNext]_vars

SpecToken == InitToken /\ [][TokenNext]_vars

SpecRetry == InitRetry /\ [][RetryNext]_vars

SpecDiscover == InitDiscover /\ [][DiscoverNext]_vars

InitChanges ==
    BuilderIdle /\ CallIdle /\ ChangesInit /\ TokenIdle /\ ClockIdle /\ CallerInit /\ StreamIdle /\ RetryIdle
    /\ DiscoverIdle

SpecChanges == InitChanges /\ [][ChangesNext]_vars

InitFilter ==
    FilterInit /\ CallIdle /\ ChangesIdle /\ TokenIdle /\ ClockIdle /\ CallerInit /\ StreamIdle
    /\ RetryIdle /\ DiscoverIdle

InitBuilder ==
    BuilderInit /\ CallIdle /\ ChangesIdle /\ TokenIdle /\ ClockIdle /\ CallerInit /\ StreamIdle
    /\ RetryIdle /\ DiscoverIdle

SpecFilter == InitFilter /\ [][FilterNext]_vars

SpecBuilder == InitBuilder /\ [][BuilderNext]_vars

SpecClone == InitBuilder /\ [][CloneNext]_vars

(***************************************************************************)
(* client/errors.ts : handleErrorResponse                                  *)
(***************************************************************************)
StatusText ==
    [s \in ErrorStatuses \cup {502} |->
        CASE s = 400 -> "Bad Request"
          [] s = 401 -> "Unauthorized"
          [] s = 403 -> "Forbidden"
          [] s = 404 -> "Not Found"
          [] s = 429 -> "Too Many Requests"
          [] s = 500 -> "Internal Server Error"
          [] OTHER   -> "Bad Gateway"]

\* what response.text() gives: nothing, text that is not JSON, or a JSON object
EmptyText == [kind |-> "empty", value |-> None]
InvalidText == [kind |-> "invalid", value |-> None]
JsonText(object) == [kind |-> "json", value |-> Some(object)]

\* JSON objects of error bodies: an optional message and an optional errors
\* array whose entries have an optional message
ErrorObjects ==
    [message : {None, Some("Invalid filter")},
     errors  : {None, Some(<<>>), Some(<<None>>), Some(<<Some("Model not found")>>)}]

ErrorTexts == {EmptyText, InvalidText} \cup { JsonText(o) : o \in ErrorObjects }

DataErrorResponses ==
    { [status |-> s, statusText |-> StatusText[s], text |-> t] :
        s \in DOMAIN StatusText, t \in ErrorTexts }

\* handleErrorResponse: body, null unless the text is non-empty JSON
ParseErrorBody(text) == IF text.kind = "json" THEN text.value ELSE None

ErrorMessageTopLevelOnly(body, statusText) ==
    IF body # None /\ Get(body).message # None THEN Get(Get(body).message)
    ELSE statusText

\* handleErrorResponse: body?.message ?? body?.errors?.[0]?.message ?? statusText
ErrorMessage(body, statusText) ==
    IF body # None /\ Get(body).message # None THEN Get(Get(body).message)
    ELSE IF /\ body # None
            /\ Get(body).errors # None
            /\ Len(Get(Get(body).errors)) > 0
            /\ Get(Get(body).errors)[1] # None
    THEN Get(Get(Get(body).errors)[1])
    ELSE statusText

\* handleErrorResponse: the error thrown for a response
ThrownError(r) ==
    [kind    |-> HandleErrorResponse(r.status).kind,
     status  |-> HandleErrorResponse(r.status).status,
     message |-> ErrorMessage(ParseErrorBody(r.text), r.statusText),
     body    |-> ParseErrorBody(r.text)]

CallsIdle ==
    TokenIdle /\ ClockIdle /\ CallerInit /\ StreamIdle /\ RetryIdle /\ DiscoverIdle
    /\ ChangesIdle /\ BuilderIdle

UnchangedByCalls ==
    UNCHANGED <<tokenVars, callerVars, streamVars, retryVars, discoverVars,
                changesVars, builderVars, operation, argument>>

HandleErrorResponseCall ==
    /\ operation = "handleErrorResponse"
    /\ outcome = None
    /\ outcome' = Some(ThrownError(argument))
    /\ UnchangedByCalls

(***************************************************************************)
(* client/SpintaClient.ts : getLatestChange                                *)
(***************************************************************************)
ModelPaths == { "test/Model", "datasets/gov/example/City" }

\* what request() does for the call: it returns the parsed body, or throws the
\* error of handleErrorResponse
OkAnswer(data) == [ok |-> TRUE, data |-> data, status |-> 200]
FailedAnswer(status) == [ok |-> FALSE, data |-> <<>>, status |-> status]

LatestChangeAnswers ==
    { OkAnswer(d) : d \in { <<>>, <<ChangeEntry(12345)>>,
                             <<ChangeEntry(40), ChangeEntry(30)>> } }
    \cup { FailedAnswer(st) : st \in ErrorStatuses }

LatestChangeCalls == [model : ModelPaths, answer : LatestChangeAnswers]

\* getLatestChange: the path requested
LatestChangePath(model) == Join(<<"/", model, "/:changes/-1">>)

GetLatestChangeUncaught(model, answer) ==
    [path     |-> LatestChangePath(model),
     returned |-> IF answer.ok /\ Len(answer.data) > 0
                  THEN Some(answer.data[1]) ELSE None,
     thrown   |-> IF answer.ok THEN None
                  ELSE Some(HandleErrorResponse(answer.status))]

\* getLatestChange: response._data[0] ?? null, and null from the catch block
GetLatestChange(model, answer) ==
    [path     |-> LatestChangePath(model),
     returned |-> IF answer.ok /\ Len(answer.data) > 0
                  THEN Some(answer.data[1]) ELSE None,
     thrown   |-> None]

GetLatestChangeCall ==
    /\ operation = "getLatestChange"
    /\ outcome = None
    /\ outcome' = Some(GetLatestChange(argument.model, argument.answer))
    /\ UnchangedByCalls

(***************************************************************************)
(* cli/crawler.ts : inferType / fetchModelMetadata                         *)
(***************************************************************************)
MaxSample == 3

\* JSON values of a sampled field; a string carries the patterns of inferType
\* that match it
JsNull == [js |-> "null"]
JsNumber(isInteger) == [js |-> "number", isInteger |-> isInteger]
JsBoolean == [js |-> "boolean"]
JsString(text, matches) == [js |-> "string", text |-> text, matches |-> matches]
JsArray == [js |-> "array"]
JsObject(keys, idIsString) == [js |-> "object", keys |-> keys, idIsString |-> idIsString]

\* inferType
InferType(value) ==
    CASE value.js = "null" -> "unknown"
      [] value.js = "string" ->
            IF "wkt" \in value.matches THEN "geometry"
            ELSE IF "srid" \in value.matches THEN "geometry"
            ELSE IF "isoDate" \in value.matches
            THEN (IF "T" \in value.matches THEN "datetime" ELSE "date")
            ELSE IF "uuid" \in value.matches THEN "ref"
            ELSE IF "http" \in value.matches
            THEN (IF "extension" \in value.matches THEN "file" ELSE "url")
            ELSE "string"
      [] value.js = "number" -> IF value.isInteger THEN "integer" ELSE "number"
      [] value.js = "boolean" -> "boolean"
      [] value.js = "array" -> "array"
      [] value.js = "object" ->
            IF "_content_type" \in value.keys \/ "_size" \in value.keys THEN "file"
            ELSE IF "_id" \in value.keys /\ value.idIsString THEN "ref"
            ELSE "object"
      [] OTHER -> "unknown"

\* the values a sampled field takes
SampleValues ==
    { JsNull, JsNumber(TRUE), JsNumber(FALSE), JsBoolean, JsArray,
      JsString("text", {}),
      JsString("2024-01-01", {"isoDate"}),
      JsString("2024-01-15T10:00:00Z", {"isoDate", "T"}),
      JsString("567ac089-03e1-4f0d-ac6c-debc4cd5476b", {"uuid"}),
      JsObject({"_id"}, TRUE) }

\* the values of one field in the records of the sample, in record order
Samples == UNION { [1..n -> SampleValues] : n \in 1..MaxSample }

PropertyTypesAsList(values) == [i \in 1..Len(values) |-> InferType(values[i])]

\* fetchModelMetadata: the Set of types collected for a field, filled record by
\* record; a Set keeps its members in insertion order, each once
RECURSIVE PropertyTypes(_)
PropertyTypes(values) ==
    IF values = <<>> THEN <<>>
    ELSE LET types == PropertyTypes(SubSeq(values, 1, Len(values) - 1))
             type == InferType(values[Len(values)])
         IN IF \E i \in 1..Len(types) : types[i] = type THEN types
            ELSE Append(types, type)

ResolveTypeKeepingUnknown(types) ==
    LET has(t) == \E i \in 1..Len(types) : types[i] = t IN
    IF Len(types) = 1 THEN types[1]
    ELSE IF Len(types) > 1
    THEN IF has("ref") THEN "ref"
         ELSE IF has("string") THEN "string"
         ELSE IF has("datetime") THEN "datetime"
         ELSE IF has("date") THEN "date"
         ELSE IF has("number") \/ has("integer") THEN "number"
         ELSE "string"
    ELSE "unknown"

ResolveTypeFirstSeen(types) ==
    LET concrete == SelectSeq(types, LAMBDA t : t # "unknown") IN
    IF Len(concrete) >= 1 THEN concrete[1] ELSE "unknown"

\* fetchModelMetadata: finalType of a field from its Set of types
ResolveType(types) ==
    LET concrete == SelectSeq(types, LAMBDA t : t # "unknown")
        has(t) == \E i \in 1..Len(concrete) : concrete[i] = t
    IN
    IF Len(concrete) = 1 THEN concrete[1]
    ELSE IF Len(concrete) > 1
    THEN IF has("ref") THEN "ref"
         ELSE IF has("string") THEN "string"
         ELSE IF has("datetime") THEN "datetime"
         ELSE IF has("date") THEN "date"
         ELSE IF has("number") \/ has("integer") THEN "number"
         ELSE "string"
    ELSE "unknown"

\* fetchModelMetadata for one field of the sample: { name, type }
FetchModelMetadataCall ==
    /\ operation = "fetchModelMetadata"
    /\ outcome = None
    /\ outcome' = Some([name |-> "field", type |-> ResolveType(PropertyTypes(argument))])
    /\ UnchangedByCalls

(***************************************************************************)
(* builder/FilterBuilder.ts : the methods of FieldFilter                   *)
(***************************************************************************)
ComparisonMethods == {"eq", "ne", "lt", "le", "gt", "ge"}
StringMethods == {"contains", "startswith"}

\* the methods class FieldFilter defines
FieldFilterMethods == ComparisonMethods \cup StringMethods

\* the methods the tests and the CLI call on field(name)
CalledMethods == FieldFilterMethods \cup {"endswith", "in", "notin"}

ValueLists ==
    { <<StringValue(<<"a">>)>>, <<NumberValue(1)>>,
      <<StringValue(<<"a">>), StringValue(<<"b">>)>>,
      <<NumberValue(1), NumberValue(2), NumberValue(3)>>,
      <<NumberValue(0), NumberValue(-1)>> }

\* fb.field(f).<method>(...): in and notin take a list, the others one value
FieldCalls ==
    { c \in [field : {"status", "email"}, method : CalledMethods, values : ValueLists] :
        /\ c.method \notin {"in", "notin"} => Len(c.values) = 1
        /\ c.method \in StringMethods \cup {"endswith"} => c.values[1].kind = "string" }

\* filterToString(fb.field(f).<method>(...).node); calling a method the class
\* does not define throws a TypeError
FieldCall(c) ==
    IF c.method \notin FieldFilterMethods
    THEN [thrown |-> Some("TypeError"), text |-> None]
    ELSE [thrown |-> None,
          text   |-> Some(LeafToString(
                        IF c.method \in ComparisonMethods
                        THEN ComparisonNode(c.field, c.method, c.values[1])
                        ELSE StringOpNode(c.field, c.method, c.values[1])))]

FieldFilterCall ==
    /\ operation = "fieldFilter"
    /\ outcome = None
    /\ outcome' = Some(FieldCall(argument))
    /\ UnchangedByCalls

(***************************************************************************)
(* cli/parsers/filter.ts : parseFilter, method branch for in / notin       *)
(***************************************************************************)
MaxArgsLen == 5

\* a string is the sequence of its characters
Chars == {"a", ",", "'", "\"", "\\", " "}

\* the text between the parentheses of field.in(...): the pattern asks for at
\* least one character
ArgStrings == UNION { [1..n -> Chars] : n \in 1..MaxArgsLen }

\* String.prototype.trim
RECURSIVE Trim(_)
Trim(str) ==
    IF str = <<>> THEN str
    ELSE IF Head(str) = " " THEN Trim(Tail(str))
    ELSE IF str[Len(str)] = " " THEN Trim(SubSeq(str, 1, Len(str) - 1))
    ELSE str

\* str.replace(/\\q/g, by) for a character q: every backslash followed by q,
\* left to right
RECURSIVE ReplaceEscaped(_, _, _)
ReplaceEscaped(str, q, by) ==
    IF Len(str) < 2 THEN str
    ELSE IF str[1] = "\\" /\ str[2] = q
    THEN <<by>> \o ReplaceEscaped(SubSeq(str, 3, Len(str)), q, by)
    ELSE <<str[1]>> \o ReplaceEscaped(Tail(str), q, by)

\* parseValue on the strings of ArgStrings: null, true, false, numbers and
\* dates need characters these strings do not have
ParseValue(valueStr) ==
    LET trimmed == Trim(valueStr)
        quoted(q) == trimmed # <<>> /\ Head(trimmed) = q /\ trimmed[Len(trimmed)] = q
        inner == SubSeq(trimmed, 2, Len(trimmed) - 1)
    IN
    IF quoted("\"") THEN ReplaceEscaped(ReplaceEscaped(inner, "\"", "\""), "\\", "\\")
    ELSE IF quoted("'") THEN ReplaceEscaped(ReplaceEscaped(inner, "'", "'"), "\\", "\\")
    ELSE trimmed

ValueListStart ==
    [values |-> <<>>, current |-> <<>>, inQuote |-> FALSE, quoteChar |-> "",
     escaped |-> FALSE]

ValueListStepAnyQuoteCloses(st, char) ==
    IF st.escaped
    THEN [st EXCEPT !.current = Append(@, char), !.escaped = FALSE]
    ELSE IF char = "\\"
    THEN [st EXCEPT !.escaped = TRUE, !.current = Append(@, char)]
    ELSE IF char \in {"\"", "'"}
    THEN IF ~st.inQuote
         THEN [st EXCEPT !.inQuote = TRUE, !.quoteChar = char,
                         !.current = Append(@, char)]
         ELSE [st EXCEPT !.inQuote = FALSE, !.quoteChar = "",
                         !.current = Append(@, char)]
    ELSE IF char = "," /\ ~st.inQuote
    THEN [st EXCEPT !.values = Append(@, ParseValue(Trim(st.current))),
                    !.current = <<>>]
    ELSE [st EXCEPT !.current = Append(@, char)]

\* parseValueList: one round of the loop over the characters
ValueListStep(st, char) ==
    IF st.escaped
    THEN [st EXCEPT !.current = Append(@, char), !.escaped = FALSE]
    ELSE IF char = "\\"
    THEN [st EXCEPT !.escaped = TRUE, !.current = Append(@, char)]
    ELSE IF char \in {"\"", "'"}
    THEN IF ~st.inQuote
         THEN [st EXCEPT !.inQuote = TRUE, !.quoteChar = char,
                         !.current = Append(@, char)]
         ELSE IF char = st.quoteChar
         THEN [st EXCEPT !.inQuote = FALSE, !.quoteChar = "",
                         !.current = Append(@, char)]
         ELSE [st EXCEPT !.current = Append(@, char)]
    ELSE IF char = "," /\ ~st.inQuote
    THEN [st EXCEPT !.values = Append(@, ParseValue(Trim(st.current))),
                    !.current = <<>>]
    ELSE [st EXCEPT !.current = Append(@, char)]

RECURSIVE ValueListLoop(_)
ValueListLoop(argsStr) ==
    IF argsStr = <<>> THEN ValueListStart
    ELSE ValueListStep(ValueListLoop(SubSeq(argsStr, 1, Len(argsStr) - 1)),
                       argsStr[Len(argsStr)])

\* parseValueList
ParseValueList(argsStr) ==
    LET st == ValueListLoop(argsStr) IN
    IF Trim(st.current) # <<>>
    THEN Append(st.values, ParseValue(Trim(st.current)))
    ELSE st.values

ArrayMethods == {"in", "notin"}

FilterStrings == [field : {"status"}, method : ArrayMethods, args : ArgStrings]

\* parseFilter on field.method(args), method in or notin
ParseFilter(filter) ==
    LET values == ParseValueList(filter.args) IN
    [field |-> filter.field, operator |-> filter.method,
     value |-> IF values = <<>> THEN None ELSE Some(values[1]),
     values |-> values]

ParseFilterCall ==
    /\ operation = "parseFilter"
    /\ outcome = None
    /\ outcome' = Some(ParseFilter(argument))
    /\ UnchangedByCalls

CallsInit ==
    /\ outcome = None
    /\ \/ operation = "handleErrorResponse" /\ argument \in DataErrorResponses
       \/ operation = "getLatestChange" /\ argument \in LatestChangeCalls
       \/ operation = "fetchModelMetadata" /\ argument \in Samples
       \/ operation = "fieldFilter" /\ argument \in FieldCalls
       \/ operation = "parseFilter" /\ argument \in FilterStrings

CallsNext ==
    \/ HandleErrorResponseCall
    \/ GetLatestChangeCall
    \/ FetchModelMetadataCall
    \/ FieldFilterCall
    \/ ParseFilterCall

InitCalls == CallsIdle /\ CallsInit

SpecCalls == InitCalls /\ [][CallsNext]_vars

(***************************************************************************)
(* Properties                                                              *)
(***************************************************************************)
IsPrefix(s, t) == Len(s) <= Len(t) /\ s = SubSeq(t, 1, Len(s))

\* C1: stream yields every item of every page exactly once, in page order and
\* in the order inside each page; the first request carries the base query,
\* request k+1 carries the cursor returned by page k, and the stream ends
\* after the first response without a cursor: k pages cause exactly k requests.
C1_StreamDeliversListing ==
    /\ IsPrefix(delivered, AllItems(listing))
    /\ Len(requests) <= Len(listing)
    /\ Len(requests) >= 1 => requests[1].query = baseQuery
    /\ \A k \in 1..Len(requests) :
          PageTokenOf(requests[k].query) = IF k = 1 THEN None ELSE listing[k - 1].next
    /\ spc = "done" =>
          /\ delivered = AllItems(listing)
          /\ Len(requests) = Len(listing)
          /\ response.next = None

C1_Witness ==
    /\ spc = "done"
    /\ Len(listing) >= 3
    /\ Len(delivered) >= 4

\* the claims' statement of the expiry threshold, in ms
ClaimExpired(cache, t) == cache = None \/ t >= Get(cache).expiresAt - 300000

C6_ValidityWindow ==
    cachedToken # None =>
        LET threshold == cacheMeta.cachedAt + cacheMeta.expiresIn * 1000 - 300000 IN
        \A t \in {cacheMeta.cachedAt, now} \cup ((threshold - 2)..(threshold + 2)) :
            IsValid(cachedToken, t) <=> t < threshold

C6_Witness ==
    /\ cachedToken # None
    /\ cacheMeta.expiresIn > 300
    /\ now = cacheMeta.cachedAt + cacheMeta.expiresIn * 1000 - 300000
    /\ \E c \in Callers : lastCall[c].made /\ lastCall[c].refreshed /\ lastCall[c].at = now
                          /\ lastCall[c].cacheAtCall = cachedToken

\* C7: with credentials, token validity is checked before every page request:
\* when the cached token has passed the 5-minute threshold between page k and
\* page k+1, a refresh happens before the request for page k+1 is sent and
\* that request carries the new token.
C7_TokenCheckedBeforeEveryPage ==
    credentials =>
        \A k \in 1..Len(requests) :
            LET r    == requests[k]
                prev == IF k = 1 THEN 0 ELSE requests[k - 1].exchanges
            IN  IF ClaimExpired(r.cacheBefore, r.checkedAt)
                THEN /\ r.exchanges = prev + 1
                     /\ \A j \in 1..(k - 1) : requests[j].auth # r.auth
                     /\ r.cacheBefore # None => r.auth # Get(r.cacheBefore).accessToken
                ELSE /\ r.exchanges = prev
                     /\ r.auth = Get(r.cacheBefore).accessToken

C7_Witness ==
    /\ credentials
    /\ \E k \in 2..Len(requests) :
          /\ requests[k].cacheBefore # None
          /\ requests[k - 1].auth = Get(requests[k].cacheBefore).accessToken
          /\ ~ClaimExpired(requests[k].cacheBefore, requests[k - 1].checkedAt + 1)
          /\ ClaimExpired(requests[k].cacheBefore, requests[k].checkedAt)
          /\ requests[k].auth # requests[k - 1].auth

\* positions of the events of one type
EventsAt(type) == { i \in 1..Len(events) : events[i].type = type }

\* number of 429 answers to query q among the first i events
RateLimitedBefore(q, i) ==
    Cardinality({ j \in 1..i : /\ events[j].type = "response"
                               /\ events[j].status = 429
                               /\ events[j].query = q })

RequestsFor(q) ==
    Cardinality({ j \in EventsAt("request") : events[j].query = q })

\* C2: before the k-th retry of a page request that received 429 the client
\* sleeps min(initialBackoff * 2^(k-1), maxBackoff) ms and then re-requests the
\* same page with the same cursor; with initialBackoff = 1000 and maxBackoff =
\* 30000, as the CLI sets them, the sleeps are 1000, 2000, 4000, 8000; no
\* sleep exceeds maxBackoff.
C2_BackoffSchedule ==
    \A i \in EventsAt("sleep") :
        LET e == events[i]
            k == RateLimitedBefore(e.query, i)
        IN  /\ i >= 3
            /\ events[i - 1].type = "response" /\ events[i - 1].status = 429
            /\ events[i - 2].type = "request"
            /\ k >= 1
            /\ e.ms = Min(retryOptions.initialBackoffMs * (2 ^ (k - 1)),
                          retryOptions.maxBackoffMs)
            /\ e.ms <= retryOptions.maxBackoffMs
            /\ retryOptions # LibraryRetryOptions =>
                  /\ k <= 4
                  /\ e.ms = <<1000, 2000, 4000, 8000>>[k]
            /\ i < Len(events) =>
                  /\ events[i + 1].type = "request"
                  /\ events[i + 1].query = events[i - 2].query

C2_Witness ==
    /\ retryOptions # LibraryRetryOptions
    /\ \E i \in EventsAt("sleep") :
          /\ events[i].ms = 8000
          /\ PageTokenOf(events[i].query) # None
          /\ i < Len(events)

\* C3: the records of a page that succeeded only after 429 answers are
\* delivered exactly once, and the records of earlier pages are never
\* delivered again, whatever the sequence of 429 and success answers.
C3_RetryDeliversOnce ==
    /\ IsPrefix(delivered, AllItems(listing))
    /\ IsPrefix(written, delivered)
    /\ spc = "done" => delivered = AllItems(listing)
    /\ \A i \in EventsAt("response") :
          events[i].status = 200 =>
             \A j \in EventsAt("response") :
                (events[j].status = 200 /\ events[j].query = events[i].query) => j = i

C3_Witness ==
    /\ spc = "done"
    /\ Len(listing) = 2
    /\ Len(listing[1].data) >= 1
    /\ Len(listing[2].data) >= 2
    /\ RateLimitedBefore(QueryString(baseQuery, listing[1].next), Len(events)) >= 2
    /\ Len(written) = Len(AllItems(listing))

\* the page request in progress has been answered 429 on every permitted attempt
RateLimitExhausted ==
    /\ events # <<>>
    /\ LET e == events[Len(events)] IN
       /\ e.type = "response"
       /\ e.status = 429
       /\ \/ retryOptions.noRetry
          \/ RateLimitedBefore(e.query, Len(events)) >= retryOptions.maxAttempts

\* C4: 429 on every one of maxAttempts attempts, or on the first attempt in
\* no-retry mode, fails the streaming operation with a rate-limit error that
\* reports the number of records already delivered (0 when no page ever
\* succeeded); no more than maxAttempts requests are made for a page.
C4_RateLimitFailure ==
    /\ \A i \in EventsAt("request") :
          /\ RequestsFor(events[i].query) <= retryOptions.maxAttempts
          /\ retryOptions.noRetry /\ RateLimitedBefore(events[i].query, Len(events)) > 0
                => RequestsFor(events[i].query) = 1
    /\ RateLimitExhausted =>
          /\ cliResult # None
          /\ Get(cliResult).kind = "ApiError"
          /\ Get(cliResult).rateLimited
          /\ Get(cliResult).records = Len(written)
          /\ Get(cliResult).records = Len(delivered)
          /\ (\A j \in EventsAt("response") : events[j].status # 200)
                => Get(cliResult).records = 0
    /\ (cliResult # None /\ Get(cliResult).rateLimited) => RateLimitExhausted

C4_Witness ==
    /\ RateLimitExhausted
    /\ ~retryOptions.noRetry
    /\ retryOptions.maxAttempts = 5
    /\ RequestsFor(events[Len(events)].query) = 5
    /\ cliResult # None
    /\ Get(cliResult).records >= 2

\* the traverse() calls started for the sub-namespaces of call p
ChildrenOf(p) == { k \in 1..Len(tasks) : tasks[k].parent = p }

Expanding(k) == tasks[k].pc \in {"sleeping", "fetching", "waiting"}

BatchNumber(k) == (tasks[k].slot - 1) \div concurrency

C9_MinimumSpacing ==
    \A i, j \in 1..Len(requestStarts) :
        i < j => requestStarts[j].at - requestStarts[i].at >= 50

\* number of listNamespace requests in flight
InFlight == Cardinality({ k \in 1..Len(tasks) : tasks[k].pc = "fetching" })

\* C10: `concurrency` is the maximum number of concurrent requests: at no
\* moment of a run are more than `concurrency` listNamespace requests in
\* flight, all depths of the recursion counted together.
C10_GlobalConcurrency == InFlight <= concurrency

(***************************************************************************)
(* discoverModels: the result                                              *)
(***************************************************************************)
\* the models a tree holds: every non-namespace item of every listing, with
\* the namespace that lists it
ListedModels(t) ==
    UNION { { [path |-> t[ns][i].name, namespace |-> ns] :
                i \in { j \in 1..Len(t[ns]) : t[ns][j].name[Len(t[ns][j].name)] # ":ns" } } :
            ns \in DOMAIN t }

ReturnedModels ==
    { [path |-> Get(discoverResult).models[i].path,
       namespace |-> Get(discoverResult).models[i].namespace] :
        i \in 1..Len(Get(discoverResult).models) }

DiscoverResolved == discoverResult # None /\ Get(discoverResult).status = "resolved"

\* C11: a resolved discoverModels returns exactly the models listed in the start
\* namespace and in every namespace beneath it, each once and tagged with the
\* namespace that lists it (none for a tree without models), and has sent
\* exactly one listNamespace request per namespace of the tree.
C11_DiscoverReturnsModels ==
    DiscoverResolved =>
        /\ ReturnedModels = ListedModels(tree)
        /\ Len(Get(discoverResult).models) = Cardinality(ListedModels(tree))
        /\ (ListedModels(tree) = {} => Get(discoverResult).models = <<>>)
        /\ Len(requestStarts) = Cardinality(DOMAIN tree)
        /\ { requestStarts[i].ns : i \in 1..Len(requestStarts) } = DOMAIN tree

C11_Witness ==
    /\ DiscoverResolved
    /\ tree = DeepTree
    /\ Len(Get(discoverResult).models) = 3
    /\ Len(requestStarts) = 6

C11_WitnessSequential ==
    /\ DiscoverResolved
    /\ tree = DeepTree
    /\ concurrency = 1
    /\ Len(Get(discoverResult).models) = 3

C11_WitnessBare ==
    /\ DiscoverResolved
    /\ tree = BareTree
    /\ Get(discoverResult).models = <<>>

(***************************************************************************)
(* streamChanges                                                           *)
(***************************************************************************)
PageLens == [i \in 1..Len(returned) |-> Len(returned[i])]

\* the requests follow the cursor, every returned entry is yielded once and in
\* order, and only a non-empty page of at least pageSize entries is followed
\* by another request
ChangesPaging ==
    /\ \A i \in 1..Len(changeRequests) :
         LET r == changeRequests[i] IN
         /\ r.req.query = <<"?", "limit", pageSize>>
         /\ r.req.changeId = IF i = 1 THEN sinceId ELSE yielded[r.yieldedBefore].cid
         /\ i > 1 => r.yieldedBefore = Len(Concat(SubSeq(returned, 1, i - 1)))
    /\ IsPrefix(yielded, Concat(returned))
    /\ cpc \in {"request", "await", "done"} => yielded = Concat(returned)
    /\ \A i \in 1..Len(returned) :
         i < Len(changeRequests) => PageLens[i] > 0 /\ PageLens[i] >= pageSize

\* C12 (as stated): streamChanges requests the changes after sinceId, then after
\* the _cid of the last entry it yielded; it yields every returned entry once, in
\* order; it stops without a further request after the first page that is empty
\* or shorter than pageSize; a page of exactly pageSize entries always causes one
\* more request.
C12_StreamChangesAsStated ==
    /\ ChangesPaging
    /\ cpc = "done" => PageLens[Len(returned)] # pageSize

\* C12 (amended): as above, but a page of exactly pageSize entries causes one
\* more request only when it is not empty; an empty page ends the stream for
\* every pageSize, 0 included.
C12_StreamChanges ==
    /\ ChangesPaging
    /\ cpc = "done" =>
         \/ PageLens[Len(returned)] = 0
         \/ PageLens[Len(returned)] < pageSize

C12_Witness ==
    /\ cpc = "done"
    /\ pageSize = 2
    /\ Len(changeRequests) = 3
    /\ Len(yielded) = 4
    /\ PageLens = <<2, 2, 0>>

C12_WitnessShortPage ==
    /\ cpc = "done"
    /\ pageSize = 2
    /\ sinceId = 10
    /\ PageLens = <<2, 1>>
    /\ changeRequests[2].req.changeId = 30

(***************************************************************************)
(* QueryBuilder.toQueryString                                              *)
(***************************************************************************)
QS(b) == ToQueryString(builders[b], arrays, nodes)

Idx(qs, toks) == { i \in 1..Len(qs) : qs[i] \in toks }

LeafTexts == { LeafToString(Leaves[i]) : i \in 1..Len(Leaves) }

\* the tokens that open (or make up) a clause of each kind, in the fixed order
ClauseMarks == << {"select("}, LeafTexts, {"sort("}, {"limit("}, {"count()"} >>

\* the clause kinds appear in the order select, filter, sort, limit, count, the
\* keyword clauses at most once, the filter tokens in one block
InClauseOrder(qs) ==
    /\ \A k \in {1, 3, 4, 5} : Cardinality(Idx(qs, ClauseMarks[k])) <= 1
    /\ \A i \in Idx(qs, LeafTexts), j \in Idx(qs, LeafTexts) :
         \A m \in i..j : qs[m] \in LeafTexts \cup {"&", "|", "(", ")"}
    /\ \A k1 \in 1..5, k2 \in 1..5 :
         k1 < k2 => \A i \in Idx(qs, ClauseMarks[k1]), j \in Idx(qs, ClauseMarks[k2]) : i < j

\* C13: after every sequence of select, filter, sort, sortDesc, limit and count
\* calls, in any order and with repetitions, the clauses of toQueryString()
\* appear in the order select, filter, sort, limit, count, each kind at most once.
C13_ClauseOrder == \A b \in 1..Len(builders) : InClauseOrder(QS(b))

C13_Witness ==
    /\ calls = MaxCalls
    /\ \A k \in 1..5 : Idx(QS(1), ClauseMarks[k]) # {}
    /\ expected[1].count
    /\ Len(expected[1].select) = 1

\* the arguments of the clause opened by mark: the tokens up to the next ")",
\* commas left out
ClauseArgs(qs, mark) ==
    LET i == CHOOSE x \in Idx(qs, {mark}) : TRUE
        j == CHOOSE x \in (i + 1)..Len(qs) :
               qs[x] = ")" /\ \A y \in (i + 1)..(x - 1) : qs[y] # ")"
        RECURSIVE Keep(_)
        Keep(t) == IF t = <<>> THEN <<>>
                   ELSE (IF Head(t) = "," THEN <<>> ELSE <<Head(t)>>) \o Keep(Tail(t))
    IN  Keep(SubSeq(qs, i + 1, j - 1))

SortText(spec) == IF spec[2] = "desc" THEN "-" \o spec[1] ELSE spec[1]

\* C18: the rendered select list is the concatenation of the arguments of all
\* select() calls in call order, the rendered sort list is all sort/sortDesc
\* fields in call order with a leading '-' on descending ones, and the rendered
\* limit is the value of the last limit() call only.
C18_AppendAndReplace ==
    \A b \in 1..Len(builders) :
        LET e == expected[b]  qs == QS(b) IN
        /\ IF e.select = <<>> THEN Idx(qs, {"select("}) = {}
           ELSE Idx(qs, {"select("}) # {} /\ ClauseArgs(qs, "select(") = e.select
        /\ IF e.sort = <<>> THEN Idx(qs, {"sort("}) = {}
           ELSE /\ Idx(qs, {"sort("}) # {}
                /\ ClauseArgs(qs, "sort(") = [i \in 1..Len(e.sort) |-> SortText(e.sort[i])]
        /\ IF e.limit = None THEN Idx(qs, {"limit("}) = {}
           ELSE /\ Idx(qs, {"limit("}) # {}
                /\ ClauseArgs(qs, "limit(") = << ToString(Get(e.limit)) >>

C18_Witness ==
    /\ expected[1].select = <<"id", "name", "code">>
    /\ expected[1].sort = << <<"date", "desc">>, <<"name", "asc">> >>
    /\ Join(QS(1)) = "?select(id,name,code)&sort(-date,name)"

NoDirective(e) ==
    e.select = <<>> /\ e.filters = <<>> /\ e.sort = <<>> /\ e.limit = None /\ ~e.count

\* C19: toQueryString() returns the empty string exactly when no directive has
\* been added; otherwise it returns '?' followed by the non-empty clauses joined
\* by single '&' characters, and limit(0) counts as a directive.
C19_EmptyOrMarked ==
    \A b \in 1..Len(builders) :
        LET e == expected[b]  qs == QS(b) IN
        /\ (qs = <<>>) <=> NoDirective(e)
        /\ qs # <<>> =>
             /\ qs[1] = "?" /\ Idx(qs, {"?"}) = {1}
             /\ Len(qs) > 1 /\ qs[2] # "&" /\ qs[Len(qs)] # "&"
             /\ \A i \in 1..(Len(qs) - 1) : ~(qs[i] = "&" /\ qs[i + 1] = "&")
             /\ Cardinality(Idx(qs, {"&"})) >=
                  Cardinality({ k \in 1..5 : Idx(qs, ClauseMarks[k]) # {} }) - 1
        /\ e.limit = Some(0) => \E i \in 1..Len(qs) : SubSeq(qs, i, i + 2) = <<"limit(", "0", ")">>

C19_Witness ==
    /\ expected[1] = [NoCalls EXCEPT !.limit = Some(0)]
    /\ calls = 2
    /\ Join(QS(1)) = "?limit(0)"

C19_WitnessEmpty ==
    /\ calls > 0
    /\ NoDirective(expected[1])
    /\ QS(1) = <<>>

\* a step that leaves the calls made on builder b as they were leaves its
\* rendering as it was; the step that clones gives two equal renderings
CloneStep ==
    /\ (Len(builders) = 1 /\ Len(builders') = 2) => QS(1)' = QS(2)'
    /\ Len(builders) = 2 =>
         \A b \in 1..2 : expected'[b] = expected[b] => QS(b)' = QS(b)

\* C16: clone() gives an independent builder: after clone(), no sequence of
\* select, filter, sort, sortDesc, limit or count calls on the clone changes the
\* string the source renders, and none on the source changes the string the
\* clone renders; right after clone() both render the same string.
C16_CloneIndependent == [][CloneStep]_vars

C16_Witness ==
    /\ Len(builders) = 2
    /\ Join(QS(1)) = "?select(id)&limit(10)&count()"
    /\ Join(QS(2)) = "?select(id,id)&limit(10)"

(***************************************************************************)
(* Filter expressions: what a tree and what a text denote                  *)
(***************************************************************************)
\* truth assignments to the leaf predicates
Envs == [LeafTexts -> BOOLEAN]

RECURSIVE EvalNode(_, _, _)
\* the boolean a filter tree denotes under an assignment
EvalNode(h, r, env) ==
    IF IsLeaf(h[r]) THEN env[LeafToString(h[r])]
    ELSE IF h[r].type = "and" THEN EvalNode(h, h[r].left, env) /\ EvalNode(h, h[r].right, env)
    ELSE EvalNode(h, h[r].left, env) \/ EvalNode(h, h[r].right, env)

RECURSIVE ReadOr(_, _), ReadAnd(_, _), ReadAtom(_, _), ReadOrTail(_, _, _), ReadAndTail(_, _, _)
\* reading a filter text with AND binding tighter than OR and parentheses
\* grouping: each reader returns the value read and the tokens left
ReadAtom(t, env) ==
    IF Head(t) = "("
    THEN LET r == ReadOr(Tail(t), env) IN [v |-> r.v, rest |-> Tail(r.rest)]
    ELSE [v |-> env[Head(t)], rest |-> Tail(t)]
ReadAndTail(acc, t, env) ==
    IF t # <<>> /\ Head(t) = "&"
    THEN LET r == ReadAtom(Tail(t), env) IN ReadAndTail(acc /\ r.v, r.rest, env)
    ELSE [v |-> acc, rest |-> t]
ReadAnd(t, env) == LET r == ReadAtom(t, env) IN ReadAndTail(r.v, r.rest, env)
ReadOrTail(acc, t, env) ==
    IF t # <<>> /\ Head(t) = "|"
    THEN LET r == ReadAnd(Tail(t), env) IN ReadOrTail(acc \/ r.v, r.rest, env)
    ELSE [v |-> acc, rest |-> t]
ReadOr(t, env) == LET r == ReadAnd(t, env) IN ReadOrTail(r.v, r.rest, env)

Denotes(t, env) == ReadOr(t, env).v

\* the filter clause a builder renders
FilterClause(b) == FilterToString(nodes, Get(builders[b].filterExpression))

\* C17: repeated filter() calls compose conjunctively: after filter(cb1) ...
\* filter(cbn) the rendered filter clause denotes e1 AND ... AND en, in call
\* order; an ei whose root is an Or is rendered inside parentheses once it is
\* combined with another filter, so a later call never changes the meaning of
\* an earlier one.
C17_FiltersConjoin ==
    \A b \in 1..Len(builders) :
        LET es == expected[b].filters
            Text(e) == IF Len(es) > 1 /\ nodes[e].type = "or"
                       THEN <<"(">> \o FilterToString(nodes, e) \o <<")">>
                       ELSE FilterToString(nodes, e)
        IN  IF es = <<>> THEN builders[b].filterExpression = None
            ELSE /\ builders[b].filterExpression # None
                 /\ FilterClause(b) = JoinWith([i \in 1..Len(es) |-> Text(es[i])], "&")
                 /\ \A env \in Envs :
                      Denotes(FilterClause(b), env)
                        = (\A i \in 1..Len(es) : EvalNode(nodes, es[i], env))

C17_Witness ==
    /\ expected[1].filters = <<4, 1, 5>>
    /\ Join(FilterClause(1)) = "(a=1|b>%22v%22)&a=1&b>%22v%22&c.contains(%22x%5C%22%22)"

(***************************************************************************)
(* filterToString: parentheses                                             *)
(***************************************************************************)
RECURSIVE OrUnderAnd(_, _)
\* the number of Or nodes that are a direct child of an And node in the tree
\* at r, a shared operand counted once per place it is used
OrUnderAnd(h, r) ==
    IF IsLeaf(h[r]) THEN 0
    ELSE LET Here(c) == IF h[r].type = "and" /\ h[c].type = "or" THEN 1 ELSE 0
         IN  Here(h[r].left) + Here(h[r].right)
             + OrUnderAnd(h, h[r].left) + OrUnderAnd(h, h[r].right)

RECURSIVE LeafSeq(_, _)
\* the leaves of the tree at r, left to right
LeafSeq(h, r) ==
    IF IsLeaf(h[r]) THEN << LeafToString(h[r]) >>
    ELSE LeafSeq(h, h[r].left) \o LeafSeq(h, h[r].right)

RECURSIVE Without(_, _)
Without(t, drop) ==
    IF t = <<>> THEN <<>>
    ELSE (IF Head(t) \in drop THEN <<>> ELSE <<Head(t)>>) \o Without(Tail(t), drop)

TextX == LeafToString(LeafX)
TextY == LeafToString(LeafY)
TextZ == LeafToString(LeafZ)

\* C14: filterToString wraps a sub-expression in parentheses exactly when it is
\* an Or node that is a direct child (left or right) of an And node; an And child
\* of an Or node, and every leaf, is rendered without parentheses: X.and(Y.or(Z))
\* renders X&(Y|Z), (X.or(Y)).and(Z) renders (X|Y)&Z, X.or(Y.and(Z)) renders X|Y&Z.
C14_ParenthesesPlacement ==
    \A r \in 1..Len(nodes) :
        LET n == nodes[r]  t == FilterToString(nodes, r)
            Child(c) == FilterToString(nodes, c)
            Wrapped(c) == <<"(">> \o Child(c) \o <<")">>
        IN  /\ Cardinality(Idx(t, {"("})) = OrUnderAnd(nodes, r)
            /\ Cardinality(Idx(t, {")"})) = OrUnderAnd(nodes, r)
            /\ Without(t, {"(", ")", "&", "|"}) = LeafSeq(nodes, r)
            /\ IsLeaf(n) => t = << LeafToString(n) >>
            /\ n.type = "or" => t = Child(n.left) \o <<"|">> \o Child(n.right)
            /\ n.type = "and" =>
                 t = (IF nodes[n.left].type = "or" THEN Wrapped(n.left) ELSE Child(n.left))
                     \o <<"&">>
                     \o (IF nodes[n.right].type = "or" THEN Wrapped(n.right) ELSE Child(n.right))
            /\ (n.type = "and" /\ n.left = 1 /\ nodes[n.right] = OrNode(2, 3))
                 => t = <<TextX, "&", "(", TextY, "|", TextZ, ")">>
            /\ (n.type = "and" /\ nodes[n.left] = OrNode(1, 2) /\ n.right = 3)
                 => t = <<"(", TextX, "|", TextY, ")", "&", TextZ>>
            /\ (n.type = "or" /\ n.left = 1 /\ nodes[n.right] = AndNode(2, 3))
                 => t = <<TextX, "|", TextY, "&", TextZ>>

C14_Witness ==
    /\ Len(nodes) = 5
    /\ nodes[4] = OrNode(2, 3)
    /\ nodes[5] = AndNode(1, 4)
    /\ Join(FilterToString(nodes, 5)) = "a=1&(b>%22v%22|c.contains(%22x%5C%22%22))"

RECURSIVE Only(_, _, _)
\* every inner node of the tree at r has the given type
Only(h, r, type) ==
    IsLeaf(h[r]) \/ (h[r].type = type /\ Only(h, h[r].left, type) /\ Only(h, h[r].right, type))

\* C15: a filter that uses only and() (or only or()) over leaf predicates
\* renders with no parentheses at all, with the leaves in left-to-right order
\* joined by & (or |), for chains of any length and any nesting shape.
C15_PureChains ==
    \A r \in 1..Len(nodes) :
        LET t == FilterToString(nodes, r)
            leaves == LeafSeq(nodes, r)
            Chain(sep) == JoinWith([i \in 1..Len(leaves) |-> <<leaves[i]>>], sep)
        IN  /\ Only(nodes, r, "and") => t = Chain("&")
            /\ Only(nodes, r, "or") => t = Chain("|")

C15_Witness ==
    /\ Len(nodes) = 5
    /\ nodes[4] = AndNode(2, 3)
    /\ nodes[5] = AndNode(1, 4)
    /\ FilterToString(nodes, 5) = <<TextX, "&", TextY, "&", TextZ>>

C15_WitnessOr ==
    /\ Len(nodes) = 5
    /\ nodes[4] = OrNode(1, 2)
    /\ nodes[5] = OrNode(4, 4)
    /\ FilterToString(nodes, 5) = <<TextX, "|", TextY, "|", TextX, "|", TextY>>

\* no step changes a node that exists, or what it renders
NodesKept ==
    /\ Len(nodes') >= Len(nodes)
    /\ \A r \in 1..Len(nodes) :
         /\ nodes'[r] = nodes[r]
         /\ FilterToString(nodes', r) = FilterToString(nodes, r)

\* C20: filter nodes are never mutated after creation: a.and(b) and a.or(b)
\* allocate a new node and leave a.node and b.node unchanged, so after any
\* sequence of and/or/filter calls that reuse an expression as operand, that
\* expression still renders the same string as before.
C20_NodesImmutable == [][NodesKept]_vars

C20_Witness ==
    /\ Len(nodes) = 5
    /\ nodes[4] = OrNode(1, 2)
    /\ nodes[5] = AndNode(4, 4)
    /\ expected[1].filters = <<4, 4>>
    /\ FilterToString(nodes, 4) = <<TextX, "|", TextY>>

(***************************************************************************)
(* TokenCache.refresh: failure                                             *)
(***************************************************************************)
\* the step in which the refresh of caller c fails
RefreshFails(c) == callerPc[c] = "refreshing" /\ lastCall'[c].failedWith # None

RefreshFailureStep ==
    \A c \in Callers :
        RefreshFails(c) =>
            LET answer == Get(lastCall'[c].failedWith)
                err    == Get(lastCall'[c].error)
            IN  /\ err.kind = "AuthenticationError"
                /\ err.status = answer.status
                /\ err.message =
                     IF answer.body.json /\ answer.body.description # None
                     THEN Get(answer.body.description)
                     ELSE "Failed to obtain access token"
                /\ lastCall'[c].result = None
                /\ cachedToken' = cachedToken
                /\ cacheMeta' = cacheMeta

\* C21: when the token endpoint answers with a non-success status, the refresh
\* raises an authentication error whose message is the answer's
\* error_description when one is present and the generic message otherwise, and
\* the cached token is left exactly as it was (nothing partial or empty stored).
C21_RefreshFailure == [][RefreshFailureStep]_vars

C21_Witness ==
    \E c \in Callers :
        /\ lastCall[c].failedWith # None
        /\ Get(lastCall[c].error).message = "Invalid client credentials"
        /\ cachedToken # None
        /\ lastCall[c].cacheAtCall = cachedToken

C21_WitnessGeneric ==
    \E c \in Callers :
        /\ lastCall[c].failedWith # None
        /\ ~Get(lastCall[c].failedWith).body.json
        /\ Get(lastCall[c].error).message = "Failed to obtain access token"
        /\ cachedToken = None

(***************************************************************************)
(* TokenCache: overlapping refreshes                                       *)
(***************************************************************************)
IssuedTokens == { "token" \o ToString(k) : k \in 1..tokenSeq }

\* C22: when two getToken() calls overlap while the cache is empty or expired,
\* each performs its own token exchange, each returns an access token that came
\* from a successful exchange, and under every interleaving the cache afterwards
\* holds one complete token (accessToken and expiresAt from the same response).
C22_ConcurrentRefreshes ==
    /\ (\A c \in Callers : callerPc[c] # "idle") =>
         /\ \A c \in Callers : lastCall[c].refreshed
         /\ \A c, d \in Callers :
              c # d => lastCall[c].exchangesAfter # lastCall[d].exchangesAfter
    /\ \A c \in Callers :
         (lastCall[c].finished /\ lastCall[c].refreshed /\ lastCall[c].error = None) =>
            /\ lastCall[c].result # None
            /\ Get(lastCall[c].result) \in IssuedTokens
    /\ cachedToken # None =>
         /\ tokenSeq >= 1
         /\ Get(cachedToken).accessToken = "token" \o ToString(tokenSeq)
         /\ Get(cachedToken).expiresAt = cacheMeta.cachedAt + cacheMeta.expiresIn * 1000
    /\ cachedToken = None => (tokenSeq = 0 \/ lastClear.active)

\* both callers refreshed at the same time and both exchanges succeeded; the
\* first to finish its exchange returned the token of the second
C22_Witness ==
    /\ tokenSeq = 2
    /\ authRequests = 2
    /\ \A c \in Callers :
         /\ lastCall[c].finished /\ lastCall[c].refreshed
         /\ lastCall[c].cacheAtCall = None
         /\ lastCall[c].result = Some("token2")
    /\ Get(cachedToken).accessToken = "token2"

(***************************************************************************)
(* streamWithRetry: failures other than 429                                *)
(***************************************************************************)
\* positions of the answers that are neither a success nor a 429
OtherFailures ==
    { i \in EventsAt("response") : events[i].status \notin {200, 429} }

\* C23: in the retrying stream a page request that fails with anything other
\* than 429 (400, 401/403, 404, 5xx) is attempted exactly once: the error
\* propagates immediately, with no backoff sleep and no second request.
C23_OtherFailuresUntried ==
    \A i \in OtherFailures :
        /\ i = Len(events)
        /\ i >= 2
        /\ events[i - 1].type = "request"
        /\ events[i - 1].query = events[i].query
        /\ events[i - 1].attempt = events[i].attempt
        /\ spc = "error"
        /\ streamError # None
        /\ Get(streamError).status = events[i].status
        /\ RateLimitedBefore(events[i].query, i) = 0 =>
              /\ RequestsFor(events[i].query) = 1
              /\ events[i].attempt = 1

\* the second page, after one delivered page, is answered 500 on its first attempt
C23_Witness ==
    /\ events # <<>>
    /\ LET e == events[Len(events)] IN
       /\ e.type = "response"
       /\ e.status = 500
       /\ PageTokenOf(e.query) # None
       /\ RequestsFor(e.query) = 1
    /\ ~retryOptions.noRetry
    /\ Len(delivered) >= 1
    /\ EventsAt("sleep") = {}

C25_WitnessNothingWritten ==
    /\ OtherFailures # {}
    /\ events[Len(events)].status = 500
    /\ written = <<>>
    /\ Get(cliResult).kind = "ApiError"
    /\ Get(cliResult).exitCode = 2

(***************************************************************************)
(* handleErrorResponse                                                     *)
(***************************************************************************)
CallDone(op) == operation = op /\ outcome # None

ClassOfStatus(e, r) ==
    /\ e.kind = CASE r.status = 400 -> "ValidationError"
                  [] r.status = 401 -> "AuthenticationError"
                  [] r.status = 403 -> "AuthenticationError"
                  [] r.status = 404 -> "NotFoundError"
                  [] OTHER -> "SpintaError"
    /\ e.status = r.status

HasMessage(text) == text.kind = "json" /\ Get(text.value).message # None

HasFirstErrorMessage(text) ==
    /\ text.kind = "json"
    /\ Get(text.value).errors \notin {None, Some(<<>>), Some(<<None>>)}

\* C24: every non-success response of a data request becomes an error chosen
\* by status (400 validation, 401 and 403 authentication, 404 not-found, any
\* other status the generic Spinta error) that keeps the status; its message is
\* the body's message when the body is JSON with one, else the message of the
\* first entry of the body's errors array when there is one, else the status
\* text, also when the body is empty or not JSON.
C24_ErrorByStatus ==
    CallDone("handleErrorResponse") =>
        LET r == argument
            e == Get(outcome)
        IN  /\ ClassOfStatus(e, r)
            /\ e.message =
                 IF HasMessage(r.text) THEN Get(Get(r.text.value).message)
                 ELSE IF HasFirstErrorMessage(r.text)
                 THEN Get(Get(Get(r.text.value).errors)[1])
                 ELSE r.statusText

\* the claim as stated: without a message of its own the body gives the status text
C24_ErrorByStatusAsStated ==
    CallDone("handleErrorResponse") =>
        LET r == argument
            e == Get(outcome)
        IN  /\ ClassOfStatus(e, r)
            /\ e.message =
                 IF HasMessage(r.text) THEN Get(Get(r.text.value).message)
                 ELSE r.statusText

\* 403 with a body that is not JSON: authentication error, status text as message
C24_Witness ==
    /\ CallDone("handleErrorResponse")
    /\ argument.status = 403
    /\ argument.text = InvalidText
    /\ Get(outcome).kind = "AuthenticationError"
    /\ Get(outcome).status = 403
    /\ Get(outcome).message = "Forbidden"

\* 400 with {"message": "Invalid filter"}
C24_WitnessBodyMessage ==
    /\ CallDone("handleErrorResponse")
    /\ argument.status = 400
    /\ HasMessage(argument.text)
    /\ Get(outcome).kind = "ValidationError"
    /\ Get(outcome).message = "Invalid filter"

\* 404 with {"errors": [{"message": "Model not found"}]}
C24_WitnessFirstError ==
    /\ CallDone("handleErrorResponse")
    /\ argument.status = 404
    /\ ~HasMessage(argument.text)
    /\ Get(outcome).message = "Model not found"

(***************************************************************************)
(* getLatestChange                                                         *)
(***************************************************************************)
\* C26: getLatestChange requests the change log at index -1 and returns the
\* first entry of the response; it returns null, without raising, when the
\* request fails with 404 or the response has no entries.
C26_LatestChange ==
    CallDone("getLatestChange") =>
        LET a == argument.answer
            o == Get(outcome)
        IN  /\ o.path = "/" \o argument.model \o "/:changes/-1"
            /\ (a.ok /\ a.data # <<>>) =>
                  o.returned = Some(Head(a.data)) /\ o.thrown = None
            /\ (a.ok /\ a.data = <<>>) => o.returned = None /\ o.thrown = None
            /\ (~a.ok /\ a.status = 404) => o.returned = None /\ o.thrown = None

\* the request is answered 404: null is returned and nothing is thrown
C26_Witness ==
    /\ CallDone("getLatestChange")
    /\ argument.answer = FailedAnswer(404)
    /\ Get(outcome) = [path |-> "/test/Model/:changes/-1", returned |-> None,
                       thrown |-> None]

\* the response holds entries: the first one is returned
C26_WitnessEntry ==
    /\ CallDone("getLatestChange")
    /\ Len(argument.answer.data) = 2
    /\ Get(outcome).returned = Some(ChangeEntry(40))

(***************************************************************************)
(* fetchModelMetadata: type resolution                                     *)
(***************************************************************************)
\* the tags observed for the sampled field, unknown left out
ConcreteTags == { InferType(argument[i]) : i \in 1..Len(argument) } \ {"unknown"}

FirstByPriority(tags) ==
    IF "ref" \in tags THEN "ref"
    ELSE IF "string" \in tags THEN "string"
    ELSE IF "datetime" \in tags THEN "datetime"
    ELSE IF "date" \in tags THEN "date"
    ELSE IF tags \cap {"number", "integer"} # {} THEN "number"
    ELSE "string"

\* C27: the inferred type of a field follows from the set of tags observed for
\* it: unknown is dropped when a concrete tag exists; a single remaining tag
\* wins; several resolve by ref > string > datetime > date > number (for number
\* or integer), else string; a field seen only as null stays unknown. So
\* null,100 gives integer; 123,"text" gives string; null,"2024-01-01",null
\* gives date.
C27_TypeResolution ==
    CallDone("fetchModelMetadata") =>
        LET type == Get(outcome).type IN
        /\ ConcreteTags = {} => type = "unknown"
        /\ \A t \in ConcreteTags : ConcreteTags = {t} => type = t
        /\ Cardinality(ConcreteTags) > 1 => type = FirstByPriority(ConcreteTags)
        /\ argument = <<JsNull, JsNumber(TRUE)>> => type = "integer"
        /\ argument = <<JsNumber(TRUE), JsString("text", {})>> => type = "string"
        /\ argument = <<JsNull, JsString("2024-01-01", {"isoDate"}), JsNull>>
              => type = "date"
        /\ argument \in {<<JsNull>>, <<JsNull, JsNull>>} => type = "unknown"

\* null, "2024-01-01", null resolved to date
C27_Witness ==
    /\ CallDone("fetchModelMetadata")
    /\ argument = <<JsNull, JsString("2024-01-01", {"isoDate"}), JsNull>>
    /\ Get(outcome).type = "date"

\* an integer and a non-integer number, with a null: number
C27_WitnessNumber ==
    /\ CallDone("fetchModelMetadata")
    /\ argument = <<JsNumber(TRUE), JsNull, JsNumber(FALSE)>>
    /\ Get(outcome).type = "number"

\* tags outside the priority list fall back to string
C27_WitnessFallback ==
    /\ CallDone("fetchModelMetadata")
    /\ ConcreteTags = {"boolean", "array"}
    /\ Get(outcome).type = "string"

(***************************************************************************)
(* FieldFilter: endswith, in, notin                                        *)
(***************************************************************************)
RECURSIVE FormattedList(_)
\* the values formatted like comparison values, in the given order, with commas
FormattedList(values) ==
    IF values = <<>> THEN ""
    ELSE IF Len(values) = 1 THEN FormatValue(values[1])
    ELSE FormatValue(values[1]) \o "," \o FormattedList(Tail(values))

\* C28: the field builder offers endswith, in and notin next to the other
\* operators: field(f).in([v1,...,vn]) renders f.in(v1,...,vn), notin renders
\* f.notin(...), every value formatted like a comparison value and kept in the
\* given order, and endswith(s) renders f.endswith(value).
C28_EndswithInNotin ==
    (CallDone("fieldFilter") /\ argument.method \in {"endswith", "in", "notin"}) =>
        /\ Get(outcome).thrown = None
        /\ Get(outcome).text =
              Some(argument.field \o "." \o argument.method \o "("
                   \o FormattedList(argument.values) \o ")")

(***************************************************************************)
(* stream(): the query string of the later pages                           *)
(***************************************************************************)
PageDirectives(q) == { i \in 1..Len(q) : q[i] = "page(" }

\* C29: every page request of stream() after the first consists of the
\* unchanged base query followed by exactly one page("cursor") directive holding
\* the most recent cursor (earlier cursors do not accumulate); the directive is
\* joined with '&' when the base query is non-empty and with '?' when it is
\* empty.
C29_PageDirective ==
    /\ requests # <<>> => requests[1].query = baseQuery
    /\ \A k \in 2..Len(requests) :
         LET q == requests[k].query
             cursor == listing[k - 1].next
         IN  /\ cursor # None
             /\ Len(q) = Len(baseQuery) + 4
             /\ SubSeq(q, 1, Len(baseQuery)) = baseQuery
             /\ q[Len(baseQuery) + 1] = (IF baseQuery = <<>> THEN "?" ELSE "&")
             /\ SubSeq(q, Len(baseQuery) + 2, Len(q)) = <<"page(", Get(cursor), ")">>
             /\ Cardinality(PageDirectives(q)) = 1
             /\ \A j \in 1..(k - 2) :
                   \A i \in 1..Len(q) : q[i] # Get(listing[j].next)

\* the third page is requested with an empty base query
C29_Witness ==
    /\ baseQuery = <<>>
    /\ Len(requests) = 3
    /\ Join(requests[3].query) = "?page(cur3)"
    /\ Join(requests[2].query) = "?page(cur2)"

\* the third page is requested with a base query
C29_WitnessBase ==
    /\ Len(requests) = 3
    /\ Join(requests[1].query) = "?limit(10)"
    /\ Join(requests[3].query) = "?limit(10)&page(cur3)"

(***************************************************************************)
(* stream(): a failed page request                                         *)
(***************************************************************************)
\* the items of the first n pages of the listing
ItemsOfPages(n) == Concat([k \in 1..n |-> listing[k].data])

\* the step in which the request for a page fails
PageFails == streamError = None /\ streamError' # None

PageFailureStep ==
    /\ PageFails =>
         LET k == ServedPage(queryString) IN
         /\ spc' = "error"
         /\ delivered' = ItemsOfPages(k - 1)
         /\ requests' = requests
         /\ Len(requests) \in {k - 1, k}
         /\ spc = "fetching" => Len(requests) = k
         /\ \A i, j \in 1..Len(requests) :
               requests[i].query = requests[j].query => i = j
    /\ streamError # None =>
         /\ spc = "error" /\ spc' = "error"
         /\ streamError' = streamError
         /\ requests' = requests
         /\ delivered' = delivered
         /\ pageToken' = pageToken

\* C30: stream() makes exactly one attempt per page: when the request for page
\* k fails, the error reaches the consumer after all items of pages 1..k-1 have
\* been yielded and no item of page k, no further request is made, and the
\* stream does not resume from page k.
C30_OneAttemptPerPage == [][PageFailureStep]_vars

\* the request for the third page failed after the items of two pages
C30_Witness ==
    /\ streamError # None
    /\ Get(streamError).status = 500
    /\ Len(requests) = 3
    /\ Len(listing[1].data) = 2 /\ Len(listing[2].data) = 1
    /\ delivered = listing[1].data \o listing[2].data
    /\ listing[3].data # <<>>
    /\ spc = "error"

(***************************************************************************)
(* filterToString: the text read back                                      *)
(***************************************************************************)
\* C31: the rendering is faithful to precedence: for every filter tree built
\* from leaf predicates with and/or, reading the text of filterToString with
\* AND binding tighter than OR and parentheses grouping gives the boolean
\* function the tree denotes.
\* (every tree is the newest node of the state in which it was created, and
\* nodes are never changed afterwards, so the newest node of every state is
\* compared)
C31_RenderingFaithful ==
    LET r == Len(nodes) IN
    \A env \in Envs :
        Denotes(FilterToString(nodes, r), env) = EvalNode(nodes, r, env)

\* X.and(Y.or(Z)): the text a=1&(b>..|c...) is read as the tree, and without
\* its parentheses it would be read as another function
C31_Witness ==
    /\ Len(nodes) = 5
    /\ nodes[4] = OrNode(2, 3)
    /\ nodes[5] = AndNode(1, 4)
    /\ FilterToString(nodes, 5) = <<TextX, "&", "(", TextY, "|", TextZ, ")">>
    /\ \E env \in Envs :
          /\ ~EvalNode(nodes, 5, env)
          /\ Denotes(<<TextX, "&", TextY, "|", TextZ>>, env)

\* (X.or(Y)).and(Y.or(Z)): both operands are wrapped
C31_WitnessBothSides ==
    \E r \in 1..Len(nodes) :
        /\ nodes[r].type = "and"
        /\ nodes[nodes[r].left].type = "or"
        /\ nodes[nodes[r].right].type = "or"
        /\ Cardinality(Idx(FilterToString(nodes, r), {"("})) = 2

(***************************************************************************)
(* TokenCache: the token getToken() returns                                *)
(***************************************************************************)
\* the calls that ended by returning the token now in the cache
ReturnedCached ==
    { c \in Callers : /\ lastCall[c].finished
                      /\ lastCall[c].result # None
                      /\ cachedToken # None
                      /\ lastCall[c].result = Some(Get(cachedToken).accessToken) }

\* C32: whenever getToken() returns a token, that token satisfies
\* now < expiresAt - 5 min at the moment the refresh that produced it completed,
\* for every positive expires_in the auth server can return; so a getToken()
\* that directly follows a successful getToken() does not refresh again.
C32_ReturnedTokenValid ==
    /\ \A c \in ReturnedCached :
          cacheMeta.cachedAt < Get(cachedToken).expiresAt - 300000
    /\ \A c \in Callers :
          (lastCall[c].refreshed /\ lastCall[c].cacheAtCall # None
             /\ lastCall[c].cacheAtCall = cachedToken /\ callerPc[c] = "refreshing")
          => lastCall[c].at > cacheMeta.cachedAt

(***************************************************************************)
(* TokenCache: getToken() against clear()                                  *)
(***************************************************************************)
\* C33: getToken() never returns an absent token: under every interleaving of
\* getToken(), refresh completion and clear(), getToken() either returns the
\* access token of a cache entry or raises an authentication error; when
\* clear() runs between a successful refresh and getToken's read of the cache,
\* getToken() raises rather than returning nothing.
C33_NeverAbsent ==
    \A c \in Callers :
        /\ lastCall[c].finished =>
             \/ /\ lastCall[c].result # None
                /\ Get(lastCall[c].result) \in IssuedTokens
                /\ lastCall[c].error = None
             \/ /\ lastCall[c].result = None
                /\ lastCall[c].error # None
                /\ Get(lastCall[c].error).kind = "AuthenticationError"
        /\ (callerPc[c] = "resuming" /\ cachedToken = None) => lastClear.active
        /\ (lastCall[c].finished /\ lastCall[c].refreshed /\ lastCall[c].failedWith = None
              /\ lastCall[c].result = None) =>
             Get(lastCall[c].error).message = "Failed to obtain access token"

\* the refresh of the call succeeded, clear() ran before the call read the
\* cache, and the call ended with an authentication error
C33_Witness ==
    \E c \in Callers :
        /\ lastCall[c].finished
        /\ lastCall[c].refreshed
        /\ lastCall[c].failedWith = None
        /\ lastCall[c].result = None
        /\ Get(lastCall[c].error).kind = "AuthenticationError"
        /\ tokenSeq >= 1
        /\ lastClear.active
        /\ cachedToken = None

(***************************************************************************)
(* discoverModels: namespaces requested                                    *)
(***************************************************************************)
\* C34: for every namespace structure with finitely many namespaces,
\* discoverModels terminates and requests each namespace at most once,
\* including when a listing contains the listed namespace itself or one of its
\* ancestors as a sub-namespace entry.
C34_EachNamespaceOnce ==
    /\ \A i, j \in 1..Len(requestStarts) :
          requestStarts[i].ns = requestStarts[j].ns => i = j
    /\ Len(tasks) <= Cardinality(DOMAIN tree)

(***************************************************************************)
(* discoverModels: a failed listing                                        *)
(***************************************************************************)
FailedTasks(ts) == { k \in 1..Len(ts) : ts[k].pc = "failed" }

\* the traverse calls whose own listNamespace request failed
FailedRequests(ts) == { k \in FailedTasks(ts) : ts[k].subs = <<>> /\ ts[k].kids = {} }

DiscoverRejected(result) == result # None /\ Get(result).status = "rejected"

PendingAfter ==
    \E p \in 1..Len(tasks') :
        /\ tasks'[p].pc = "waiting"
        /\ \E k \in tasks'[p].kids : tasks'[k].pc = "failed"

FailureStep ==
    \* a failure reaches the caller as a rejection, with the error of the
    \* request that failed and no models
    /\ (FailedTasks(tasks') # {} /\ ~PendingAfter) => DiscoverRejected(discoverResult')
    /\ DiscoverRejected(discoverResult') =>
          /\ Get(discoverResult').models = <<>>
          /\ Get(discoverResult').error # None
          /\ \E k \in FailedRequests(tasks') :
                /\ tasks'[k].error = Get(discoverResult').error
                /\ Get(tasks'[k].error).ns = tasks'[k].ns
    /\ discoverResult # None => discoverResult' = discoverResult
    \* a traverse call only fails through its own request or one of its own
    \* batch members; no other call is stopped
    /\ \A k \in 1..Len(tasks) :
          (tasks[k].pc # "failed" /\ tasks'[k].pc = "failed") =>
             \/ tasks[k].pc = "fetching"
             \/ tasks[k].pc = "waiting" /\ \E m \in tasks[k].kids : tasks[m].pc = "failed"
    /\ \A k \in 1..Len(tasks) :
          (tasks[k].pc \in {"sleeping", "fetching"} /\ tasks'[k].pc # tasks[k].pc) =>
             tasks'[k].pc \in {"fetching", "waiting", "done", "failed"}

\* C35: if any listNamespace request of a discovery run fails, discoverModels
\* rejects with that error and returns no partial list of models; the other
\* traversals of the same batch that are already running are not cancelled and
\* keep issuing their requests after the rejection.
C35_RejectsWithoutCancelling == [][FailureStep]_vars

\* the request for r/b failed and rejected the run; the traversal of r/a, a
\* member of the same batch, went on and sent a request later
C35_Witness ==
    /\ DiscoverRejected(discoverResult)
    /\ tree = DeepTree
    /\ Get(Get(discoverResult).error).ns = <<"r", "b">>
    /\ models # <<>>
    /\ \E i \in 1..Len(requestStarts) :
          /\ requestStarts[i].at > Get(Get(discoverResult).error).at
          /\ requestStarts[i].ns \in { <<"r", "a", "x">>, <<"r", "a", "y">> }

(***************************************************************************)
(* runStreamingQuery: the --limit of a streaming query                     *)
(***************************************************************************)
\* the newest event is a page request sent by this step
SendsRequest ==
    /\ Len(events') = Len(events) + 1
    /\ events'[Len(events')].type = "request"

LimitReached == limit # None /\ Get(limit) > 0 /\ Len(written) = Get(limit)

\* what the record loop wrote when the command ended without an error
WrittenOnSuccess ==
    (limit # None /\ cliResult # None /\ Get(cliResult).kind = "ok") =>
        /\ Len(written) = Min(Get(limit), Len(AllItems(listing)))
        /\ written = SubSeq(AllItems(listing), 1, Len(written))

\* the record loop never writes more than the limit
C36_NeverMoreThanLimit ==
    /\ limit # None => Len(written) <= Get(limit)
    /\ WrittenOnSuccess

\* the limit was reached on a record that is not the last of the listing
C36_WitnessLimit ==
    /\ LimitReached
    /\ Get(limit) < Len(AllItems(listing))
    /\ cliResult # None /\ Get(cliResult).kind = "ok"

\* C36: a CLI streaming query with limit L writes exactly min(L, total)
\* records, never more than L, and once the L-th record has been written it
\* causes no further page request to the service.
C36_NoRequestAfterLimit == [][LimitReached => ~SendsRequest]_vars

\* all the records asked for were written, and the command still failed on the
\* page it requested afterwards
C36_FailedAfterLimit ==
    /\ LimitReached
    /\ cliResult # None /\ Get(cliResult).kind # "ok"

(***************************************************************************)
(* fetchModelMetadata: order and repetition of the sampled records         *)
(***************************************************************************)
\* the sample with its records in another order
Reordered(values, p) == [i \in 1..Len(values) |-> values[p[i]]]

\* the sample with record i repeated at position j
Repeated(values, i, j) ==
    SubSeq(values, 1, j - 1) \o <<values[i]>> \o SubSeq(values, j, Len(values))

TypeOf(values) == ResolveType(PropertyTypes(values))

\* C37: the inferred type of a field is the same for every ordering of the
\* sampled records and does not change when a record is repeated: it depends
\* only on the set of type tags observed for the field.
C37_OrderAndRepetition ==
    CallDone("fetchModelMetadata") =>
        LET type == Get(outcome).type
            n == Len(argument)
        IN
        /\ \A p \in Permutations(1..n) : TypeOf(Reordered(argument, p)) = type
        /\ \A i \in 1..n : \A j \in 1..(n + 1) : TypeOf(Repeated(argument, i, j)) = type
        /\ \A i \in 1..n : \A p \in Permutations(1..(n + 1)) :
              TypeOf(Reordered(Repeated(argument, i, 1), p)) = type

\* three records with three different tags, the first one outside the priority
\* list: every ordering gives date
C37_Witness ==
    /\ CallDone("fetchModelMetadata")
    /\ argument = <<JsBoolean, JsString("2024-01-01", {"isoDate"}), JsNumber(FALSE)>>
    /\ Get(outcome).type = "date"
    /\ PropertyTypes(argument) # PropertyTypes(Reordered(argument, <<3, 2, 1>>))

\* the same record twice: the type of its one tag
C37_WitnessRepeated ==
    /\ CallDone("fetchModelMetadata")
    /\ argument = <<JsNumber(TRUE), JsNumber(TRUE)>>
    /\ Get(outcome).type = "integer"

(***************************************************************************)
(* parseFilter: the value list of in / notin                               *)
(***************************************************************************)
Quotes == {"\"", "'"}

\* the number of backslashes that stand directly before position i
RECURSIVE BackslashesBefore(_, _)
BackslashesBefore(str, i) ==
    IF i > 1 /\ str[i - 1] = "\\" THEN 1 + BackslashesBefore(str, i - 1) ELSE 0

\* position i is escaped: under the literal reading when a backslash stands
\* before it, otherwise when that backslash is not itself escaped
EscapedAt(str, i, literal) ==
    IF literal THEN i > 1 /\ str[i - 1] = "\\"
    ELSE BackslashesBefore(str, i) % 2 = 1

\* the quote that is open when position i is read, "" when none is
RECURSIVE OpenQuote(_, _, _)
OpenQuote(str, i, literal) ==
    IF i = 1 THEN ""
    ELSE LET q == OpenQuote(str, i - 1, literal)
             c == str[i - 1]
         IN IF c \notin Quotes \/ EscapedAt(str, i - 1, literal) THEN q
            ELSE IF q = "" THEN c
            ELSE IF c = q THEN ""
            ELSE q

\* the commas the list is cut at
SplitPoints(str, literal) ==
    { i \in 1..Len(str) :
        /\ str[i] = ","
        /\ BackslashesBefore(str, i) % 2 = 0
        /\ OpenQuote(str, i, literal) = "" }

\* the k-th cut of the string, its two ends counted as cuts
Cut(cuts, k) == CHOOSE x \in cuts : Cardinality({ y \in cuts : y < x }) = k - 1

\* the values of the pieces between the cuts, in their order; a blank last
\* piece gives no value
ValuesBetween(str, points) ==
    LET cuts == points \cup {0, Len(str) + 1}
        pieces == [k \in 1..(Cardinality(cuts) - 1) |->
                     SubSeq(str, Cut(cuts, k) + 1, Cut(cuts, k + 1) - 1)]
        last == pieces[Len(pieces)]
        kept == IF Trim(last) = <<>> THEN SubSeq(pieces, 1, Len(pieces) - 1)
                ELSE pieces
    IN [k \in 1..Len(kept) |-> ParseValue(Trim(kept[k]))]

SplitAsRead(literal) ==
    CallDone("parseFilter") =>
        LET args == argument.args
            parsed == Get(outcome)
        IN
        /\ parsed.operator = argument.method
        /\ parsed.values = ValuesBetween(args, SplitPoints(args, literal))
        /\ parsed.value = IF parsed.values = <<>> THEN None
                          ELSE Some(parsed.values[1])

\* C38: the argument list of an in/notin filter is split only at commas that
\* are outside quotes: a comma inside a single- or double-quoted value does
\* not split, a quote character that follows a backslash which is not itself
\* escaped does not open or close a quote, a quote of the other kind inside a
\* quoted value does not close it, and the values keep their order.
C38_QuoteAwareSplit == SplitAsRead(FALSE)

\* C38 as stated: every quote character that follows a backslash neither
\* opens nor closes a quote.
C38_QuoteAwareSplitAsStated == SplitAsRead(TRUE)

ParsedAs(method, args, values) ==
    /\ CallDone("parseFilter")
    /\ argument.method = method
    /\ argument.args = args
    /\ Get(outcome).values = values

\* "\","  one value: the escaped quote does not close, the comma is inside
C38_Witness == ParsedAs("in", <<"\"", "\\", "\"", ",", "\"">>, << <<"\"", ",">> >>)

\* 'a,a'  one value
C38_WitnessSingleQuoted ==
    ParsedAs("notin", <<"'", "a", ",", "a", "'">>, << <<"a", ",", "a">> >>)

\* "',"  one value: the single quote does not close the double-quoted value
C38_WitnessOtherQuote ==
    ParsedAs("in", <<"\"", "'", ",", "\"">>, << <<"'", ",">> >>)

\* \",a  two values: the escaped quote opens nothing, the comma splits
C38_WitnessEscapedOutside ==
    ParsedAs("in", <<"\\", "\"", ",", "a">>, << <<"\\", "\"">>, <<"a">> >>)

\* ',',a  two values in the order written, split at the second comma only
C38_WitnessOrder ==
    ParsedAs("in", <<"'", ",", "'", ",", "a">>, << <<",">>, <<"a">> >>)

\* \\",a  one value: the backslash before the quote is itself escaped, the
\* quote opens a value that is never closed
C38_WitnessEscapedBackslash ==
    ParsedAs("in", <<"\\", "\\", "\"", ",", "a">>,
             << <<"\\", "\\", "\"", ",", "a">> >>)

====
